---- MODULE Spec2Model ----
(***************************************************************************)
(* Meme-coin aggregator (brudda01/eterna-backend-task).                    *)
(*                                                                         *)
(* The model follows the latest revision of every class found in the       *)
(* sources: TokenService (token-service.ts:308-777), CacheManager          *)
(* (types/index.ts:48-105), DexScreenerClient (dexscreener.ts),            *)
(* GeckoTerminalClient (unnamed/part_002:81-266), TokenController          *)
(* (token-controller.ts), TokenScheduler (token-scheduler.ts) and          *)
(* WebSocketServer (unnamed/part_000:889-1137, with the two typed          *)
(* broadcast helpers the scheduler calls, websocket-server.ts:70-84).      *)
(*                                                                         *)
(* Numbers.  JavaScript numbers are modelled as integers on a fixed grid,  *)
(* one unit per kind of field, and the arithmetic is exact:                *)
(*   price_sol                     1 unit = 1e-9   (1.0 is 1000000000)     *)
(*   volume_*, market_cap_sol,                                             *)
(*   liquidity_sol, transaction_*  1 unit = 0.1    (1000 is 10000)         *)
(*   price_*_change                1 unit = 0.01 percentage points         *)
(*   timestamp                     an integer clock reading (ISO strings   *)
(*                                 of one format compare like the times)   *)
(* For an integer d and x >= 0, d > x * 0.001 iff d > x \div 1000, which   *)
(* is how the relative thresholds are written below.                       *)
(*                                                                         *)
(* Strings.  Addresses are sequences of one-character strings, so that the *)
(* address checks can look at single characters; every other string is a   *)
(* TLA+ string.                                                            *)
(***************************************************************************)
EXTENDS Integers, Sequences, FiniteSets, TLC

(***************************************************************************)
(* Generic helpers                                                         *)
(***************************************************************************)
Max(a, b) == IF a >= b THEN a ELSE b

Abs(a) == IF a >= 0 THEN a ELSE 0 - a

Rep(c, n) == [i \in 1..n |-> c]

Range(s) == {s[i] : i \in 1..Len(s)}

\* Array.prototype.filter
RECURSIVE FilterSeq(_, _)
FilterSeq(s, keep) ==
  IF s = <<>> THEN <<>>
  ELSE IF Head(s) \in keep THEN <<Head(s)>> \o FilterSeq(Tail(s), keep)
       ELSE FilterSeq(Tail(s), keep)

\* Array.prototype.slice(from) with a 0-based index
SliceFrom(s, from) == SubSeq(s, from + 1, Len(s))

\* Array.prototype.slice(0, n)
SliceTo(s, n) == SubSeq(s, 1, IF n < Len(s) THEN n ELSE Len(s))

\* Array.prototype.sort with the comparator (a, b) => key(b) - key(a): the
\* sort is stable, so equal keys keep their order.  keys[i] is the key of s[i].
SortDescBy(s, keys) ==
  LET n == Len(s)
      rank(i) == Cardinality({j \in 1..n : keys[j] > keys[i] \/ (keys[j] = keys[i] /\ j < i)}) + 1
  IN  [p \in 1..n |-> s[CHOOSE i \in 1..n : rank(i) = p]]

\* the string made of the characters of a character sequence
RECURSIVE StrOf(_)
StrOf(chars) == IF chars = <<>> THEN "" ELSE Head(chars) \o StrOf(Tail(chars))

(***************************************************************************)
(* Token records (types/index.ts:1-22)                                     *)
(***************************************************************************)
\* a property the object does not have (undefined)
Undefined == -1

Token(addr, name, ticker, price, mcap, v1h, v24h, v7d, liq, t1h, t24h, t7d, p1h, p24h, p7d, protocol, ts) ==
  [token_address |-> addr, token_name |-> name, token_ticker |-> ticker,
   price_sol |-> price, market_cap_sol |-> mcap,
   volume_1h |-> v1h, volume_24h |-> v24h, volume_7d |-> v7d, volume_sol |-> v24h,
   liquidity_sol |-> liq,
   transaction_count_1h |-> t1h, transaction_count_24h |-> t24h, transaction_count_7d |-> t7d,
   transaction_count |-> t24h,
   price_1hr_change |-> p1h, price_24hr_change |-> p24h, price_7d_change |-> p7d,
   protocol |-> protocol, timestamp |-> ts]

(***************************************************************************)
(* TokenService.isValidSolanaAddress                                       *)
(***************************************************************************)
Base58 ==
  {"1", "2", "3", "4", "5", "6", "7", "8", "9",
   "A", "B", "C", "D", "E", "F", "G", "H", "J", "K", "L", "M", "N",
   "P", "Q", "R", "S", "T", "U", "V", "W", "X", "Y", "Z",
   "a", "b", "c", "d", "e", "f", "g", "h", "i", "j", "k",
   "m", "n", "o", "p", "q", "r", "s", "t", "u", "v", "w", "x", "y", "z"}

\* String.prototype.includes for character sequences
Includes(s, sub) ==
  \E i \in 0..(Len(s) - Len(sub)) : \A j \in 1..Len(sub) : s[i + j] = sub[j]

StartsWith(s, prefix) ==
  Len(s) >= Len(prefix) /\ \A j \in 1..Len(prefix) : s[j] = prefix[j]

\* mutant: the upper length limit is off by one
isValidSolanaAddress_LongerLimit(address) ==
  IF address = <<>> THEN FALSE
  ELSE IF StartsWith(address, <<"0", "x">>) THEN FALSE
  ELSE IF Includes(address, <<".">>) THEN FALSE
  ELSE IF Includes(address, <<"i", "b", "c", "/">>) THEN FALSE
  ELSE IF Len(address) < 32 \/ Len(address) > 45 THEN FALSE
  ELSE IF ~(\A i \in 1..Len(address) : address[i] \in Base58) THEN FALSE
  ELSE IF Includes(address, Rep("0", 40)) THEN FALSE
  ELSE TRUE

isValidSolanaAddress(address) ==
  IF address = <<>> THEN FALSE
  ELSE IF StartsWith(address, <<"0", "x">>) THEN FALSE
  ELSE IF Includes(address, <<".">>) THEN FALSE
  ELSE IF Includes(address, <<"i", "b", "c", "/">>) THEN FALSE
  ELSE IF Len(address) < 32 \/ Len(address) > 44 THEN FALSE
  ELSE IF ~(\A i \in 1..Len(address) : address[i] \in Base58) THEN FALSE
  ELSE IF Includes(address, Rep("0", 40)) THEN FALSE
  ELSE TRUE

(***************************************************************************)
(* Merge engine: TokenService.mergeTokenPair / mergeTokenData              *)
(***************************************************************************)
\* mutant: the price of the first record is preferred
mergeTokenPair_PrefersPrimaryPrice(dexToken, geckoToken) ==
  LET mergedVolume24h == dexToken.volume_24h + geckoToken.volume_24h
      mergedTransactionCount24h == dexToken.transaction_count_24h + geckoToken.transaction_count_24h
  IN  [dexToken EXCEPT
         !.price_sol = IF dexToken.price_sol > 0 THEN dexToken.price_sol ELSE geckoToken.price_sol,
         !.market_cap_sol = Max(dexToken.market_cap_sol, geckoToken.market_cap_sol),
         !.volume_24h = mergedVolume24h,
         !.volume_sol = mergedVolume24h,
         !.transaction_count_24h = mergedTransactionCount24h,
         !.transaction_count = mergedTransactionCount24h,
         !.liquidity_sol = Max(dexToken.liquidity_sol, geckoToken.liquidity_sol),
         !.timestamp = IF geckoToken.timestamp > dexToken.timestamp
                       THEN geckoToken.timestamp ELSE dexToken.timestamp,
         !.protocol = dexToken.protocol \o "+GeckoTerminal"]

\* mutant: the alias of the 24h volume keeps the value of the first record
mergeTokenPair_StaleAlias(dexToken, geckoToken) ==
  LET mergedVolume24h == dexToken.volume_24h + geckoToken.volume_24h
      mergedTransactionCount24h == dexToken.transaction_count_24h + geckoToken.transaction_count_24h
  IN  [dexToken EXCEPT
         !.price_sol = IF geckoToken.price_sol > 0 THEN geckoToken.price_sol ELSE dexToken.price_sol,
         !.market_cap_sol = Max(dexToken.market_cap_sol, geckoToken.market_cap_sol),
         !.volume_24h = mergedVolume24h,
         !.volume_sol = dexToken.volume_sol,
         !.transaction_count_24h = mergedTransactionCount24h,
         !.transaction_count = mergedTransactionCount24h,
         !.liquidity_sol = Max(dexToken.liquidity_sol, geckoToken.liquidity_sol),
         !.timestamp = IF geckoToken.timestamp > dexToken.timestamp
                       THEN geckoToken.timestamp ELSE dexToken.timestamp,
         !.protocol = dexToken.protocol \o "+GeckoTerminal"]

\* mutant: the liquidity of the first record is kept
mergeTokenPair_PrimaryLiquidity(dexToken, geckoToken) ==
  LET mergedVolume24h == dexToken.volume_24h + geckoToken.volume_24h
      mergedTransactionCount24h == dexToken.transaction_count_24h + geckoToken.transaction_count_24h
  IN  [dexToken EXCEPT
         !.price_sol = IF geckoToken.price_sol > 0 THEN geckoToken.price_sol ELSE dexToken.price_sol,
         !.market_cap_sol = Max(dexToken.market_cap_sol, geckoToken.market_cap_sol),
         !.volume_24h = mergedVolume24h,
         !.volume_sol = mergedVolume24h,
         !.transaction_count_24h = mergedTransactionCount24h,
         !.transaction_count = mergedTransactionCount24h,
         !.liquidity_sol = dexToken.liquidity_sol,
         !.timestamp = IF geckoToken.timestamp > dexToken.timestamp
                       THEN geckoToken.timestamp ELSE dexToken.timestamp,
         !.protocol = dexToken.protocol \o "+GeckoTerminal"]

\* mutant: the two tags are joined in the opposite order
mergeTokenPair_TagReversed(dexToken, geckoToken) ==
  LET mergedVolume24h == dexToken.volume_24h + geckoToken.volume_24h
      mergedTransactionCount24h == dexToken.transaction_count_24h + geckoToken.transaction_count_24h
  IN  [dexToken EXCEPT
         !.price_sol = IF geckoToken.price_sol > 0 THEN geckoToken.price_sol ELSE dexToken.price_sol,
         !.market_cap_sol = Max(dexToken.market_cap_sol, geckoToken.market_cap_sol),
         !.volume_24h = mergedVolume24h,
         !.volume_sol = mergedVolume24h,
         !.transaction_count_24h = mergedTransactionCount24h,
         !.transaction_count = mergedTransactionCount24h,
         !.liquidity_sol = Max(dexToken.liquidity_sol, geckoToken.liquidity_sol),
         !.timestamp = IF geckoToken.timestamp > dexToken.timestamp
                       THEN geckoToken.timestamp ELSE dexToken.timestamp,
         !.protocol = "GeckoTerminal+" \o dexToken.protocol]

mergeTokenPair(dexToken, geckoToken) ==
  LET mergedVolume24h == dexToken.volume_24h + geckoToken.volume_24h
      mergedTransactionCount24h == dexToken.transaction_count_24h + geckoToken.transaction_count_24h
  IN  [dexToken EXCEPT
         !.price_sol = IF geckoToken.price_sol > 0 THEN geckoToken.price_sol ELSE dexToken.price_sol,
         !.market_cap_sol = Max(dexToken.market_cap_sol, geckoToken.market_cap_sol),
         !.volume_24h = mergedVolume24h,
         !.volume_sol = mergedVolume24h,
         !.transaction_count_24h = mergedTransactionCount24h,
         !.transaction_count = mergedTransactionCount24h,
         !.liquidity_sol = Max(dexToken.liquidity_sol, geckoToken.liquidity_sol),
         !.timestamp = IF geckoToken.timestamp > dexToken.timestamp
                       THEN geckoToken.timestamp ELSE dexToken.timestamp,
         !.protocol = dexToken.protocol \o "+GeckoTerminal"]

\* geckoMap: Map.set keeps the last record of an address
GeckoMapGet(geckoTokens, address) ==
  LET hits == {i \in 1..Len(geckoTokens) : geckoTokens[i].token_address = address}
  IN  IF hits = {} THEN <<>>
      ELSE <<geckoTokens[CHOOSE i \in hits : \A j \in hits : j <= i]>>

\* mutant: records known to the secondary source only are appended
mergeTokenData_Union(dexTokens, geckoTokens) ==
  [i \in 1..Len(dexTokens) |->
     LET geckoToken == GeckoMapGet(geckoTokens, dexTokens[i].token_address)
     IN  IF geckoToken # <<>> THEN mergeTokenPair(dexTokens[i], geckoToken[1])
         ELSE dexTokens[i]]
  \o FilterSeq(geckoTokens, {g \in Range(geckoTokens) :
                               \A i \in 1..Len(dexTokens) : dexTokens[i].token_address # g.token_address})

mergeTokenData(dexTokens, geckoTokens) ==
  [i \in 1..Len(dexTokens) |->
     LET geckoToken == GeckoMapGet(geckoTokens, dexTokens[i].token_address)
     IN  IF geckoToken # <<>> THEN mergeTokenPair(dexTokens[i], geckoToken[1])
         ELSE dexTokens[i]]

(***************************************************************************)
(* Filter & sort engine                                                    *)
(***************************************************************************)
filterForDashboard(tokens) ==
  LET pass(token) ==
        IF token.token_address = <<>> \/ token.token_name = "" \/ token.token_ticker = "" THEN FALSE
        ELSE IF token.token_ticker = "Unknown" \/ Len(token.token_name) < 2 \/ Len(token.token_ticker) < 2
             THEN FALSE
        ELSE token.volume_24h > 0 /\ token.liquidity_sol > 0
      kept == FilterSeq(tokens, {t \in Range(tokens) : pass(t)})
  IN  SortDescBy(kept, [i \in 1..Len(kept) |-> kept[i].volume_24h])

\* TokenFilters (types/index.ts:24-29).  An absent period or sortBy is "",
\* an absent limit is 0 and an absent cursor is <<>>: each of them is falsy
\* like undefined at every place the code reads it.  A filters argument that
\* is itself undefined is <<>>, a given one is <<filters>>.
Filters(period, sortBy, limit, cursor) ==
  [period |-> period, sortBy |-> sortBy, limit |-> limit, cursor |-> cursor]

NoFilters == <<>>

applyPeriodFilter(tokens, period) ==
  LET pass(token) ==
        CASE period = "1h" -> token.volume_1h > 0 \/ token.transaction_count_1h > 0
          [] period = "24h" -> token.volume_24h > 0 \/ token.transaction_count_24h > 0
          [] period = "7d" -> token.volume_7d > 0 \/ token.transaction_count_7d > 0
          [] OTHER -> TRUE
  IN  FilterSeq(tokens, {t \in Range(tokens) : pass(t)})

getVolumeForPeriod(token, period) ==
  CASE period = "1h" -> token.volume_1h
    [] period = "7d" -> token.volume_7d
    [] OTHER -> token.volume_24h

getPriceChangeForPeriod(token, period) ==
  CASE period = "1h" -> token.price_1hr_change
    [] period = "24h" -> token.price_24hr_change
    [] period = "7d" -> token.price_7d_change
    [] OTHER -> token.price_1hr_change

\* mutant: records with an equal key swap places
applySorting_TiesReversed(tokens, sortBy, period) ==
  LET key(token) ==
        CASE sortBy = "volume" -> getVolumeForPeriod(token, period)
          [] sortBy = "price_change" -> getPriceChangeForPeriod(token, period)
          [] sortBy = "market_cap" -> token.market_cap_sol
          [] OTHER -> 0
      n == Len(tokens)
      rank(i) == Cardinality({j \in 1..n : key(tokens[j]) > key(tokens[i])
                                           \/ (key(tokens[j]) = key(tokens[i]) /\ j > i)}) + 1
  IN  [p \in 1..n |-> tokens[CHOOSE i \in 1..n : rank(i) = p]]

applySorting(tokens, sortBy, period) ==
  LET key(token) ==
        CASE sortBy = "volume" -> getVolumeForPeriod(token, period)
          [] sortBy = "price_change" -> getPriceChangeForPeriod(token, period)
          [] sortBy = "market_cap" -> token.market_cap_sol
          [] OTHER -> 0
  IN  SortDescBy(tokens, [i \in 1..Len(tokens) |-> key(tokens[i])])

\* Array.prototype.findIndex(token => token.token_address === cursor), 0-based, -1 if none
CursorIndex(tokens, cursor) ==
  LET hits == {i \in 1..Len(tokens) : tokens[i].token_address = cursor}
  IN  IF hits = {} THEN -1 ELSE (CHOOSE i \in hits : \A j \in hits : i <= j) - 1

\* mutant: the record the cursor names is kept
applyFilters_CursorInclusive(tokens, filters) ==
  IF filters = <<>> THEN tokens
  ELSE
    LET f == filters[1]
        filtered1 == IF f.period # "" THEN applyPeriodFilter(tokens, f.period) ELSE tokens
        filtered2 == IF f.sortBy # "" THEN applySorting(filtered1, f.sortBy, f.period) ELSE filtered1
        cursorIndex == CursorIndex(filtered2, f.cursor)
        filtered3 == IF f.cursor # <<>> /\ cursorIndex # -1
                     THEN SliceFrom(filtered2, cursorIndex) ELSE filtered2
    IN  IF f.limit # 0 /\ f.limit > 0 THEN SliceTo(filtered3, f.limit) ELSE filtered3

applyFilters(tokens, filters) ==
  IF filters = <<>> THEN tokens
  ELSE
    LET f == filters[1]
        filtered1 == IF f.period # "" THEN applyPeriodFilter(tokens, f.period) ELSE tokens
        filtered2 == IF f.sortBy # "" THEN applySorting(filtered1, f.sortBy, f.period) ELSE filtered1
        cursorIndex == CursorIndex(filtered2, f.cursor)
        filtered3 == IF f.cursor # <<>> /\ cursorIndex # -1
                     THEN SliceFrom(filtered2, cursorIndex + 1) ELSE filtered2
    IN  IF f.limit # 0 /\ f.limit > 0 THEN SliceTo(filtered3, f.limit) ELSE filtered3

(***************************************************************************)
(* Values read back from the cache store (JSON.parse of what is stored).   *)
(* A stored list is an array of entries; an entry is a token record, or,   *)
(* in a snapshot the service did not write itself, null or a number.       *)
(***************************************************************************)
TokenEntry(token) == [kind |-> "token", tok |-> <<token>>]

NullEntry == [kind |-> "null", tok |-> <<>>]

NumberEntry == [kind |-> "number", tok |-> <<>>]

JsonArray(items) == [kind |-> "array", items |-> items]

JsonObject == [kind |-> "object", items |-> <<>>]

JsonNull == [kind |-> "null", items |-> <<>>]

\* JSON.parse(JSON.stringify(tokens)) of a list of token records
TokensJson(tokens) == JsonArray([i \in 1..Len(tokens) |-> TokenEntry(tokens[i])])

\* JSON.parse(JSON.stringify(token)) of one token record
TokenJson(token) == [kind |-> "token", items |-> <<TokenEntry(token)>>]

\* the token records of a well-formed stored list, as the service uses them
TokensOf(json) == [i \in 1..Len(json.items) |-> json.items[i].tok[1]]

WellFormed(json) ==
  json.kind = "array" /\ \A i \in 1..Len(json.items) : json.items[i].kind = "token"

(***************************************************************************)
(* Change detector: TokenService.detectChangedTokens and its comparisons   *)
(***************************************************************************)
PriceEpsilon == 10

PercentDelta == 10

Volume24hFloor == 10

Volume1hFloor == 1

MarketCapFloor == 10

TransactionFloor == 1

\* mutant: the price comparison is not strict
hasPriceChanged_NonStrict(newToken, cachedToken) ==
  LET priceThreshold == Max(cachedToken.price_sol \div 1000, PriceEpsilon)
      priceDiff == Abs(newToken.price_sol - cachedToken.price_sol)
      priceChange1h == Abs(newToken.price_1hr_change - cachedToken.price_1hr_change)
      priceChange24h == Abs(newToken.price_24hr_change - cachedToken.price_24hr_change)
  IN  priceDiff >= priceThreshold \/ priceChange1h > PercentDelta \/ priceChange24h > PercentDelta

hasPriceChanged(newToken, cachedToken) ==
  LET priceThreshold == Max(cachedToken.price_sol \div 1000, PriceEpsilon)
      priceDiff == Abs(newToken.price_sol - cachedToken.price_sol)
      priceChange1h == Abs(newToken.price_1hr_change - cachedToken.price_1hr_change)
      priceChange24h == Abs(newToken.price_24hr_change - cachedToken.price_24hr_change)
  IN  priceDiff > priceThreshold \/ priceChange1h > PercentDelta \/ priceChange24h > PercentDelta

\* mutant: the 1h volume is compared against the floor of the 24h volume
hasVolumeChanged_SharedFloor(newToken, cachedToken) ==
  LET volume24hThreshold == Max(cachedToken.volume_24h \div 1000, Volume24hFloor)
      volume24hDiff == Abs(newToken.volume_24h - cachedToken.volume_24h)
      volume1hThreshold == Max(cachedToken.volume_1h \div 1000, Volume24hFloor)
      volume1hDiff == Abs(newToken.volume_1h - cachedToken.volume_1h)
  IN  volume24hDiff > volume24hThreshold \/ volume1hDiff > volume1hThreshold

hasVolumeChanged(newToken, cachedToken) ==
  LET volume24hThreshold == Max(cachedToken.volume_24h \div 1000, Volume24hFloor)
      volume24hDiff == Abs(newToken.volume_24h - cachedToken.volume_24h)
      volume1hThreshold == Max(cachedToken.volume_1h \div 1000, Volume1hFloor)
      volume1hDiff == Abs(newToken.volume_1h - cachedToken.volume_1h)
  IN  volume24hDiff > volume24hThreshold \/ volume1hDiff > volume1hThreshold

hasMarketCapChanged(newToken, cachedToken) ==
  LET marketCapThreshold == Max(cachedToken.market_cap_sol \div 1000, MarketCapFloor)
      marketCapDiff == Abs(newToken.market_cap_sol - cachedToken.market_cap_sol)
  IN  marketCapDiff > marketCapThreshold

hasTransactionCountChanged(newToken, cachedToken) ==
  LET txn24hThreshold == Max(cachedToken.transaction_count_24h \div 1000, TransactionFloor)
      txn24hDiff == Abs(newToken.transaction_count_24h - cachedToken.transaction_count_24h)
      txn1hThreshold == Max(cachedToken.transaction_count_1h \div 1000, TransactionFloor)
      txn1hDiff == Abs(newToken.transaction_count_1h - cachedToken.transaction_count_1h)
  IN  txn24hDiff > txn24hThreshold \/ txn1hDiff > txn1hThreshold

hasChanged(newToken, cachedToken) ==
  LET priceChange == hasPriceChanged(newToken, cachedToken)
      volumeChange == hasVolumeChanged(newToken, cachedToken)
      marketCapChange == hasMarketCapChanged(newToken, cachedToken)
      transactionChange == hasTransactionCountChanged(newToken, cachedToken)
  IN  priceChange \/ volumeChange \/ marketCapChange \/ transactionChange

\* oldTokensMap.get(address) after the loop of lines 646-648: the last entry
\* of the list whose token_address is the address (an entry that is a number
\* has no token_address and is stored under the key undefined).
OldTokensMapGet(oldTokens, address) ==
  LET hits == {i \in 1..Len(oldTokens.items) :
                 /\ oldTokens.items[i].kind = "token"
                 /\ oldTokens.items[i].tok[1].token_address = address}
  IN  IF hits = {} THEN <<>>
      ELSE oldTokens.items[CHOOSE i \in hits : \A j \in hits : j <= i].tok

\* The loop of lines 646-648 runs before the try block: iterating a value
\* that is not iterable, and reading token_address of a null entry, throw a
\* TypeError that nothing in detectChangedTokens catches.
OldTokensMapThrows(oldTokens) ==
  /\ oldTokens.kind # "null"
  /\ \/ oldTokens.kind # "array"
     \/ \E i \in 1..Len(oldTokens.items) : oldTokens.items[i].kind = "null"

Returned(value) == [threw |-> FALSE, value |-> value]

Thrown == [threw |-> TRUE, value |-> <<>>]

\* mutant: a record without a prior counterpart is not reported
detectChangedTokens_DropsNewListings(newTokens, oldTokens) ==
  IF Len(newTokens) = 0 THEN Returned(<<>>)
  ELSE IF OldTokensMapThrows(oldTokens) THEN Thrown
  ELSE
    LET flagged(newToken) ==
          LET cachedToken == OldTokensMapGet(oldTokens, newToken.token_address)
          IN  IF cachedToken = <<>> THEN FALSE ELSE hasChanged(newToken, cachedToken[1])
    IN  Returned(FilterSeq(newTokens, {t \in Range(newTokens) : flagged(t)}))

\* mutant: every record of a non-empty new set is reported
detectChangedTokens_ReportsAll(newTokens, oldTokens) ==
  IF Len(newTokens) = 0 THEN Returned(<<>>)
  ELSE IF OldTokensMapThrows(oldTokens) THEN Thrown
  ELSE Returned(newTokens)

detectChangedTokens(newTokens, oldTokens) ==
  IF Len(newTokens) = 0 THEN Returned(<<>>)
  ELSE IF OldTokensMapThrows(oldTokens) THEN Thrown
  ELSE
    LET flagged(newToken) ==
          LET cachedToken == OldTokensMapGet(oldTokens, newToken.token_address)
          IN  IF cachedToken = <<>> THEN TRUE ELSE hasChanged(newToken, cachedToken[1])
    IN  Returned(FilterSeq(newTokens, {t \in Range(newTokens) : flagged(t)}))

(***************************************************************************)
(* Primary source: DexScreenerClient.searchTokens.  The result of one      *)
(* query variant is what withRetry hands back: the normalized records, or  *)
(* the error it throws once the retries are used up.                       *)
(***************************************************************************)
QueryOk(tokens) == [ok |-> TRUE, tokens |-> tokens]

QueryFailed == [ok |-> FALSE, tokens |-> <<>>]

\* lines 44-49: append the records whose address has not been seen
RECURSIVE AddUnique(_, _)
AddUnique(allTokens, tokens) ==
  IF tokens = <<>> THEN allTokens
  ELSE IF \E i \in 1..Len(allTokens) : allTokens[i].token_address = Head(tokens).token_address
       THEN AddUnique(allTokens, Tail(tokens))
       ELSE AddUnique(Append(allTokens, Head(tokens)), Tail(tokens))

\* mutant: every record of every answer is appended
RECURSIVE searchTokens_NoDedup(_)
searchTokens_NoDedup(outcomes) ==
  IF outcomes = <<>> THEN <<>>
  ELSE LET before == searchTokens_NoDedup(SubSeq(outcomes, 1, Len(outcomes) - 1))
           last == outcomes[Len(outcomes)]
       IN  IF last.ok THEN before \o last.tokens ELSE before

\* outcomes[i] is the outcome of the i-th search query
RECURSIVE searchTokens(_)
searchTokens(outcomes) ==
  IF outcomes = <<>> THEN <<>>
  ELSE LET before == searchTokens(SubSeq(outcomes, 1, Len(outcomes) - 1))
           last == outcomes[Len(outcomes)]
       IN  IF last.ok THEN AddUnique(before, last.tokens) ELSE before

(***************************************************************************)
(* Secondary source: GeckoTerminalClient.getMultipleTokens                 *)
(***************************************************************************)
GeckoBatchSize == 30

\* [...new Set(addresses)]: first occurrences, in order
RECURSIVE Unique(_)
Unique(s) ==
  IF s = <<>> THEN <<>>
  ELSE LET before == Unique(SubSeq(s, 1, Len(s) - 1))
       IN  IF s[Len(s)] \in Range(before) THEN before ELSE Append(before, s[Len(s)])

\* the address check of lines 192-210 is the one of TokenService
filterValidSolanaAddresses(addresses) ==
  LET uniqueAddresses == Unique(addresses)
  IN  FilterSeq(uniqueAddresses, {a \in Range(uniqueAddresses) : isValidSolanaAddress(a)})

\* mutant: all the addresses go out in one call
chunkAddresses_OneBatch(addresses, chunkSize) ==
  IF Len(addresses) = 0 THEN <<>> ELSE <<addresses>>

chunkAddresses(addresses, chunkSize) ==
  [k \in 1..((Len(addresses) + chunkSize - 1) \div chunkSize) |->
     SubSeq(addresses, (k - 1) * chunkSize + 1,
            IF k * chunkSize < Len(addresses) THEN k * chunkSize ELSE Len(addresses))]

\* respond(chunk) is the outcome of the call made for a chunk of addresses:
\* the normalized records of the response, or a failure.  A failed chunk is
\* skipped (lines 125-129), so the operation handed to withRetry never throws.
RECURSIVE CollectChunks(_, _)
CollectChunks(chunks, responses) ==
  IF chunks = <<>> THEN <<>>
  ELSE LET r == responses[1]
       IN  (IF r.ok THEN r.tokens ELSE <<>>) \o CollectChunks(Tail(chunks), Tail(responses))

\* responses[k] is the outcome of the call for the k-th chunk
getMultipleTokens(addresses, responses) ==
  IF Len(addresses) = 0 THEN <<>>
  ELSE LET validAddresses == filterValidSolanaAddresses(addresses)
       IN  IF Len(validAddresses) = 0 THEN <<>>
           ELSE CollectChunks(chunkAddresses(validAddresses, GeckoBatchSize), responses)

\* the address lists of the calls getMultipleTokens sends, lines 98-121: one
\* call per chunk, whether or not the previous call failed
getMultipleTokensCalls(addresses) ==
  IF Len(addresses) = 0 THEN <<>>
  ELSE LET validAddresses == filterValidSolanaAddresses(addresses)
       IN  IF Len(validAddresses) = 0 THEN <<>>
           ELSE chunkAddresses(validAddresses, GeckoBatchSize)

(***************************************************************************)
(* TokenService.fetchAndEnrichTokens                                       *)
(***************************************************************************)
\* mutant: the dashboard filter runs on the primary records, before the merge
fetchAndEnrichTokens_FilterFirst(dexOutcomes, geckoResponses) ==
  LET allDexTokens == searchTokens(dexOutcomes)
      addresses == [i \in 1..Len(allDexTokens) |-> allDexTokens[i].token_address]
      validAddresses == FilterSeq(addresses, {a \in Range(addresses) : isValidSolanaAddress(a)})
  IN  IF Len(allDexTokens) = 0 THEN <<>>
      ELSE IF Len(validAddresses) = 0 THEN filterForDashboard(allDexTokens)
      ELSE mergeTokenData(filterForDashboard(allDexTokens), getMultipleTokens(validAddresses, geckoResponses))

\* mutant: without secondary records there is no full set
fetchAndEnrichTokens_NeedsSecondary(dexOutcomes, geckoResponses) ==
  LET allDexTokens == searchTokens(dexOutcomes)
      addresses == [i \in 1..Len(allDexTokens) |-> allDexTokens[i].token_address]
      validAddresses == FilterSeq(addresses, {a \in Range(addresses) : isValidSolanaAddress(a)})
      geckoTokens == getMultipleTokens(validAddresses, geckoResponses)
  IN  IF Len(allDexTokens) = 0 THEN <<>>
      ELSE IF Len(validAddresses) = 0 THEN filterForDashboard(allDexTokens)
      ELSE IF Len(geckoTokens) = 0 THEN <<>>
      ELSE filterForDashboard(mergeTokenData(allDexTokens, geckoTokens))

fetchAndEnrichTokens(dexOutcomes, geckoResponses) ==
  LET allDexTokens == searchTokens(dexOutcomes)
      addresses == [i \in 1..Len(allDexTokens) |-> allDexTokens[i].token_address]
      validAddresses == FilterSeq(addresses, {a \in Range(addresses) : isValidSolanaAddress(a)})
  IN  IF Len(allDexTokens) = 0 THEN <<>>
      ELSE IF Len(validAddresses) = 0 THEN filterForDashboard(allDexTokens)
      ELSE filterForDashboard(mergeTokenData(allDexTokens, getMultipleTokens(validAddresses, geckoResponses)))

\* the calls to the secondary source one fetchAndEnrichTokens makes
fetchAndEnrichTokensCalls(dexOutcomes) ==
  LET allDexTokens == searchTokens(dexOutcomes)
      addresses == [i \in 1..Len(allDexTokens) |-> allDexTokens[i].token_address]
      validAddresses == FilterSeq(addresses, {a \in Range(addresses) : isValidSolanaAddress(a)})
  IN  IF Len(allDexTokens) = 0 THEN <<>>
      ELSE IF Len(validAddresses) = 0 THEN <<>>
      ELSE getMultipleTokensCalls(validAddresses)

(***************************************************************************)
(* CacheManager (types/index.ts:48-105)                                    *)
(***************************************************************************)
buildTokenKey(filters) ==
  IF filters = <<>> THEN "tokens:all"
  ELSE LET f == filters[1]
       IN  "tokens:" \o (IF f.period # "" THEN f.period ELSE "all")
             \o ":" \o (IF f.sortBy # "" THEN f.sortBy ELSE "default")
             \o ":" \o (IF f.limit # 0 THEN ToString(f.limit) ELSE "all")

TokenKey(address) == "token:" \o StrOf(address)

\* mutant: a read answers from the store whether or not it is reachable
CacheGet_IgnoresOutage(store, up, key) ==
  IF key \in DOMAIN store THEN store[key] ELSE JsonNull

\* get: the parsed value, or null when the key is absent or the store fails
CacheGet(store, up, key) ==
  IF up /\ key \in DOMAIN store THEN store[key] ELSE JsonNull

\* set: a failure of the store is logged and swallowed
CacheSet(store, up, key, value) ==
  IF up THEN [k \in DOMAIN store \cup {key} |-> IF k = key THEN value ELSE store[k]]
  ELSE store

CacheGetTokens(store, up, filters) ==
  LET value == CacheGet(store, up, buildTokenKey(filters))
  IN  IF value.kind = "null" THEN JsonArray(<<>>) ELSE value

CacheSetTokens(store, up, tokens, filters) ==
  CacheSet(store, up, buildTokenKey(filters), TokensJson(tokens))

CacheSetToken(store, up, token) ==
  CacheSet(store, up, TokenKey(token.token_address), TokenJson(token))

(***************************************************************************)
(* TokenService.cacheTokensComprehensively, one await after the other      *)
(***************************************************************************)
commonFilterCombinations ==
  << Filters("24h", "volume", 20, <<>>),
     Filters("24h", "volume", 50, <<>>),
     Filters("1h", "volume", 20, <<>>),
     Filters("7d", "volume", 20, <<>>),
     Filters("24h", "price_change", 10, <<>>),
     Filters("24h", "market_cap", 20, <<>>),
     Filters("", "price_change", 10, <<>>),
     Filters("", "price_change", 50, <<>>),
     Filters("", "volume", 20, <<>>),
     Filters("", "volume", 50, <<>>) >>

\* line 403
CacheAllTokens(store, up, tokens) == CacheSetTokens(store, up, tokens, NoFilters)

\* lines 406-409
RECURSIVE CacheIndividualTokens(_, _, _)
CacheIndividualTokens(store, up, tokens) ==
  IF tokens = <<>> THEN store
  ELSE CacheIndividualTokens(CacheSetToken(store, up, Head(tokens)), up, Tail(tokens))

\* mutant: the full list is stored under every combination
CacheCombinations_Unfiltered(store, up, tokens, combinations) ==
  LET keys == {buildTokenKey(<<combinations[k]>>) : k \in 1..Len(combinations)}
  IN  IF up THEN [k \in DOMAIN store \cup keys |-> IF k \in keys THEN TokensJson(tokens) ELSE store[k]]
      ELSE store

\* lines 429-434
RECURSIVE CacheCombinations(_, _, _, _)
CacheCombinations(store, up, tokens, combinations) ==
  IF combinations = <<>> THEN store
  ELSE CacheCombinations(
         CacheSetTokens(store, up, applyFilters(tokens, <<Head(combinations)>>), <<Head(combinations)>>),
         up, tokens, Tail(combinations))

(***************************************************************************)
(* State                                                                   *)
(***************************************************************************)
VARIABLES
  call,     \* the function application under examination, with its arguments
  ret,      \* its result, NotYet until it has been applied
  cache,    \* the cache store: key -> stored value (a key not in the domain is absent)
  redisUp,  \* whether the cache store can be reached
  cyc       \* per caller: the position and the locals of its refresh cycle

vars == <<call, ret, cache, redisUp, cyc>>

NotYet == [done |-> FALSE]

NoCall == [fn |-> "none"]

(***************************************************************************)
(* Record universe of the function-level specifications                    *)
(***************************************************************************)
NumAddr == 2

MaxNewLen == 2

MaxOldLen == 2

AddrChars == <<"A", "B", "C", "D", "E", "F">>

AddrOf(i) == Rep(AddrChars[i], 32)

Profiles == {"low", "high"}

\* a record whose values are small (the absolute floors decide) and one
\* whose values are large (the 0.1% thresholds decide)
BaseToken(addr, profile) ==
  IF profile = "low"
  THEN Token(addr, "Pepe Coin", "PEPE", 5, 100, 0, 50, 70, 40, 0, 30, 90, 0, 0, 0, "raydium", 1)
  ELSE Token(addr, "Pepe Coin", "PEPE", 1000000000, 1000000, 20000, 50000, 90000, 7000,
             5000, 30000, 80000, 150, -320, 400, "raydium", 1)

ComparedFields ==
  {"price_sol", "price_1hr_change", "price_24hr_change", "volume_24h", "volume_1h",
   "market_cap_sol", "transaction_count_24h", "transaction_count_1h"}

PercentFields == {"price_1hr_change", "price_24hr_change", "price_7d_change"}

\* steps around the point where each comparison tips over
Steps(field, profile) ==
  IF field \in PercentFields THEN {10, 11}
  ELSE IF profile = "low"
  THEN CASE field = "price_sol" -> {5, 10, 11}
         [] field \in {"volume_24h", "market_cap_sol"} -> {1, 10, 11}
         [] OTHER -> {1, 2}
  ELSE CASE field = "price_sol" -> {500000, 1000000, 1000001, 2000000}
         [] field = "volume_24h" -> {50, 51}
         [] field = "volume_1h" -> {20, 21}
         [] field = "market_cap_sol" -> {1000, 1001}
         [] field = "transaction_count_24h" -> {30, 31}
         [] OTHER -> {5, 6}

OtherNumberFields ==
  {"volume_7d", "transaction_count_7d", "price_7d_change", "liquidity_sol",
   "volume_sol", "transaction_count", "timestamp"}

Variants(addr, profile) ==
  LET base == BaseToken(addr, profile)
      moved == UNION {{[base EXCEPT ![f] = @ + d] : d \in Steps(f, profile)}
                        \cup {[base EXCEPT ![f] = @ - d] : d \in Steps(f, profile)} : f \in ComparedFields}
      other == {[base EXCEPT ![f] = @ + 5000] : f \in OtherNumberFields}
               \cup {[base EXCEPT !.token_name = "Pepe 2"], [base EXCEPT !.protocol = "orca"]}
  IN  {base} \cup {t \in moved : \A f \in ComparedFields \ PercentFields : t[f] >= 0} \cup other

FocusTokens == UNION {Variants(AddrOf(1), p) : p \in Profiles}

FillerTokens == {BaseToken(AddrOf(i), "low") : i \in 2..NumAddr}

DistinctAddresses(tokens) ==
  \A i, j \in 1..Len(tokens) : tokens[i].token_address = tokens[j].token_address => i = j

NewLists ==
  {<<>>} \cup
  UNION {{s \in [1..n -> FocusTokens \cup FillerTokens] : DistinctAddresses(s)} : n \in 1..MaxNewLen}

PriorTokens == {BaseToken(AddrOf(i), p) : i \in 1..NumAddr, p \in Profiles}

OldEntries == {TokenEntry(t) : t \in PriorTokens} \cup {NullEntry, NumberEntry}

OldSnapshots ==
  {JsonNull, JsonObject} \cup
  UNION {{JsonArray(s) : s \in [1..n -> OldEntries]} : n \in 0..MaxOldLen}

(***************************************************************************)
(* SpecDetect: detectChangedTokens applied to every pair of inputs         *)
(***************************************************************************)
SystemIdle ==
  /\ cache = <<>>
  /\ redisUp = TRUE
  /\ cyc = <<>>

InitDetect ==
  /\ call \in {[fn |-> "detectChangedTokens", newTokens |-> n, oldTokens |-> o] :
                 n \in NewLists, o \in OldSnapshots}
  /\ ret = NotYet
  /\ SystemIdle

DetectStep ==
  /\ call.fn = "detectChangedTokens"
  /\ ret = NotYet
  /\ ret' = [done |-> TRUE, out |-> detectChangedTokens(call.newTokens, call.oldTokens)]
  /\ UNCHANGED <<call, cache, redisUp, cyc>>

NextDetect == DetectStep

SpecDetect == InitDetect /\ [][NextDetect]_vars

DetectDone == call.fn = "detectChangedTokens" /\ ret # NotYet

\* the prior set is a list of records (possibly empty) or absent
PriorIsSet(oldTokens) == oldTokens.kind = "null" \/ WellFormed(oldTokens)

PriorAddresses(oldTokens) ==
  {oldTokens.items[i].tok[1].token_address : i \in {j \in 1..Len(oldTokens.items) : oldTokens.items[j].kind = "token"}}

\* the prior record of an address: the list has exactly one record of it
HasCounterpart(oldTokens, token) ==
  /\ WellFormed(oldTokens)
  /\ Cardinality({i \in 1..Len(oldTokens.items) :
                    oldTokens.items[i].tok[1].token_address = token.token_address}) = 1

Counterpart(oldTokens, token) ==
  oldTokens.items[CHOOSE i \in 1..Len(oldTokens.items) :
                    oldTokens.items[i].tok[1].token_address = token.token_address].tok[1]

\* C2: for any new set and any prior set (a list of records, empty, or
\* absent), detectChanges returns without error and its result contains every
\* new record whose address does not occur in the prior set, whatever the
\* record's field values.
C2_NewAddressFlagged ==
  (DetectDone /\ PriorIsSet(call.oldTokens)) =>
    /\ ~ret.out.threw
    /\ \A i \in 1..Len(call.newTokens) :
         call.newTokens[i].token_address \notin PriorAddresses(call.oldTokens)
           => call.newTokens[i] \in Range(ret.out.value)

C2_Witness ==
  /\ DetectDone
  /\ WellFormed(call.oldTokens)
  /\ Len(call.oldTokens.items) = 1
  /\ Len(call.newTokens) = 2
  /\ call.newTokens[1].token_address \in PriorAddresses(call.oldTokens)
  /\ call.newTokens[2].token_address \notin PriorAddresses(call.oldTokens)
  /\ ret.out.value = <<call.newTokens[2]>>

Flagged(token) == token \in Range(ret.out.value)

OtherComparedEqual(newToken, prior, field) ==
  \A f \in ComparedFields \ {field} : newToken[f] = prior[f]

Exceeds(d, prior, floorMilli) == d * 1000 > Max(prior, floorMilli)

ComparisonExceeded(n, c) ==
  \/ Abs(n.price_1hr_change - c.price_1hr_change) > 10
  \/ Abs(n.price_24hr_change - c.price_24hr_change) > 10
  \/ Exceeds(Abs(n.volume_24h - c.volume_24h), c.volume_24h, 10000)
  \/ Exceeds(Abs(n.volume_1h - c.volume_1h), c.volume_1h, 1000)
  \/ Exceeds(Abs(n.market_cap_sol - c.market_cap_sol), c.market_cap_sol, 10000)
  \/ Exceeds(Abs(n.transaction_count_24h - c.transaction_count_24h), c.transaction_count_24h, 1000)
  \/ Exceeds(Abs(n.transaction_count_1h - c.transaction_count_1h), c.transaction_count_1h, 1000)
  \/ Exceeds(Abs(n.price_sol - c.price_sol), c.price_sol, 10000)

Malformed(oldTokens) ==
  \/ oldTokens.kind = "object"
  \/ /\ oldTokens.kind = "array"
     /\ \E i \in 1..Len(oldTokens.items) : oldTokens.items[i].kind # "token"

\* C5: when the prior snapshot is malformed (not a list, or a list with a
\* null or non-record entry), detectChanges raises no error and returns the
\* entire new set as changed.
C5_FailOpen ==
  (DetectDone /\ Malformed(call.oldTokens)) =>
    /\ ~ret.out.threw
    /\ ret.out.value = call.newTokens

(***************************************************************************)
(* SpecMerge: mergeTokenPair and mergeTokenData applied to their inputs    *)
(***************************************************************************)
MaxDexLen == 2

MaxGeckoLen == 2

Shapes == 1..3

\* records of one address as the sources report them
SourceToken(addr, source, shape) ==
  LET t == CASE shape = 1 -> Token(addr, "Pepe Coin", "PEPE", 0, 100, 10, 1000, 3000, 0, 1, 20, 60, 5, -5, 20, source, 1)
             [] shape = 2 -> Token(addr, "Pepe Coin", "PEPE", 7, 300, 0, 0, 0, 50, 0, 0, 0, 0, 0, 0, source, 2)
             [] OTHER -> Token(addr, "Pepe", "PEPE", 9, 300, 4, 500, 900, 20, 2, 10, 30, -7, 8, 1, source, 2)
  IN  IF source = "GeckoTerminal"
      THEN [t EXCEPT !.volume_sol = Undefined, !.transaction_count = Undefined]
      ELSE t

DexTokens == {SourceToken(AddrOf(i), "raydium", k) : i \in 1..NumAddr, k \in Shapes}

\* the secondary source may also know an address the primary list lacks
GeckoTokens == {SourceToken(AddrOf(i), "GeckoTerminal", k) : i \in 1..(NumAddr + 1), k \in Shapes}

DexLists ==
  UNION {{s \in [1..n -> DexTokens] : DistinctAddresses(s)} : n \in 0..MaxDexLen}

GeckoLists == UNION {[1..n -> GeckoTokens] : n \in 0..MaxGeckoLen}

PairTokens == {SourceToken(AddrOf(1), src, k) : src \in {"raydium", "orca", "GeckoTerminal"}, k \in Shapes}

InitMerge ==
  /\ call \in {[fn |-> "mergeTokenData", dexTokens |-> d, geckoTokens |-> g] :
                 d \in DexLists, g \in GeckoLists}
              \cup {[fn |-> "mergeTokenPair", a |-> a, b |-> b] : a \in PairTokens, b \in PairTokens}
  /\ ret = NotYet
  /\ SystemIdle

MergeDataStep ==
  /\ call.fn = "mergeTokenData"
  /\ ret = NotYet
  /\ ret' = [done |-> TRUE, out |-> mergeTokenData(call.dexTokens, call.geckoTokens)]
  /\ UNCHANGED <<call, cache, redisUp, cyc>>

\* the pair is merged in both orders
MergePairStep ==
  /\ call.fn = "mergeTokenPair"
  /\ ret = NotYet
  /\ ret' = [done |-> TRUE, out |-> mergeTokenPair(call.a, call.b), rev |-> mergeTokenPair(call.b, call.a)]
  /\ UNCHANGED <<call, cache, redisUp, cyc>>

NextMerge == MergeDataStep \/ MergePairStep

SpecMerge == InitMerge /\ [][NextMerge]_vars

MergeDataDone == call.fn = "mergeTokenData" /\ ret # NotYet

MergePairDone == call.fn = "mergeTokenPair" /\ ret # NotYet

AddressesOf(tokens) == {tokens[i].token_address : i \in 1..Len(tokens)}

\* C9: the set merge returns exactly one record per primary record, in
\* primary order: the pairwise merge with a secondary record of the same
\* address where one exists, else the primary record unchanged; an address
\* present only in the secondary list never appears in the output.
C9_SetMerge ==
  MergeDataDone =>
    LET dex == call.dexTokens
        gecko == call.geckoTokens
        out == ret.out
    IN  /\ Len(out) = Len(dex)
        /\ \A i \in 1..Len(dex) :
             LET matches == {j \in 1..Len(gecko) : gecko[j].token_address = dex[i].token_address}
             IN  /\ out[i].token_address = dex[i].token_address
                 /\ matches = {} => out[i] = dex[i]
                 /\ matches # {} => \E j \in matches : out[i] = mergeTokenPair(dex[i], gecko[j])
        /\ \A a \in AddressesOf(gecko) \ AddressesOf(dex) : a \notin AddressesOf(out)

C9_Witness ==
  /\ MergeDataDone
  /\ Len(call.dexTokens) = 2
  /\ Len(call.geckoTokens) = 2
  /\ call.geckoTokens[1].token_address = call.dexTokens[1].token_address
  /\ call.geckoTokens[2].token_address \notin AddressesOf(call.dexTokens)
  /\ ret.out = <<mergeTokenPair(call.dexTokens[1], call.geckoTokens[1]), call.dexTokens[2]>>
  /\ ret.out[1] # call.dexTokens[1]

C11_PricePrefersSecond ==
  MergePairDone =>
    ret.out.price_sol = IF call.b.price_sol > 0 THEN call.b.price_sol ELSE call.a.price_sol

\* both branches, and a pair whose two merge orders differ in price
C11_Witness ==
  /\ MergePairDone
  /\ call.a.price_sol > 0
  /\ call.b.price_sol > 0
  /\ call.a.price_sol # call.b.price_sol
  /\ ret.out.price_sol = call.b.price_sol
  /\ ret.rev.price_sol = call.a.price_sol

C11_WitnessFallback ==
  /\ MergePairDone
  /\ call.a.price_sol > 0
  /\ call.b.price_sol = 0
  /\ ret.out.price_sol = call.a.price_sol

\* C12: for every pair of records a, b with the same address, the 24h volume
\* of merge(a, b) is a.volume24h + b.volume24h, the same as in merge(b, a),
\* likewise for the 24h transaction count, and the alias fields volume_sol and
\* transaction_count of the merged record equal those sums.
C12_SumsAndAliases ==
  MergePairDone =>
    /\ ret.out.volume_24h = call.a.volume_24h + call.b.volume_24h
    /\ ret.out.volume_24h = ret.rev.volume_24h
    /\ ret.out.transaction_count_24h = call.a.transaction_count_24h + call.b.transaction_count_24h
    /\ ret.out.transaction_count_24h = ret.rev.transaction_count_24h
    /\ ret.out.volume_sol = ret.out.volume_24h
    /\ ret.out.transaction_count = ret.out.transaction_count_24h

C12_Witness ==
  /\ MergePairDone
  /\ call.a.volume_24h > 0
  /\ call.b.volume_24h > 0
  /\ call.a.volume_24h # call.b.volume_24h
  /\ call.b.transaction_count_24h > 0
  /\ ret.out.volume_sol = call.a.volume_24h + call.b.volume_24h
  /\ ret.out.volume_sol # call.a.volume_sol

\* C13: for every pair of records a, b with the same address, the market cap
\* of merge(a, b) is the larger of the two market caps and its liquidity the
\* larger of the two liquidities, so both are the same in merge(b, a).
C13_MaxFields ==
  MergePairDone =>
    /\ ret.out.market_cap_sol = Max(call.a.market_cap_sol, call.b.market_cap_sol)
    /\ ret.out.liquidity_sol = Max(call.a.liquidity_sol, call.b.liquidity_sol)
    /\ ret.out.market_cap_sol = ret.rev.market_cap_sol
    /\ ret.out.liquidity_sol = ret.rev.liquidity_sol

C13_Witness ==
  /\ MergePairDone
  /\ call.a.market_cap_sol < call.b.market_cap_sol
  /\ call.a.liquidity_sol < call.b.liquidity_sol
  /\ ret.out.market_cap_sol = call.b.market_cap_sol
  /\ ret.out.liquidity_sol = call.b.liquidity_sol
  /\ ret.rev.liquidity_sol = call.b.liquidity_sol

(***************************************************************************)
(* Push messages (WebSocketServer).  A message is what the helper hands    *)
(* to broadcast(); NoMessage stands for a handler that pushed nothing.     *)
(***************************************************************************)
NoMessage == [type |-> "none", tokens |-> <<>>, source |-> "", count |-> 0]

broadcastUpdate(changedTokens, source) ==
  IF Len(changedTokens) = 0 THEN NoMessage
  ELSE [type |-> "UPDATE", tokens |-> changedTokens, source |-> source, count |-> Len(changedTokens)]

broadcastPriceUpdate(tokens) ==
  [type |-> "PRICE_UPDATE", tokens |-> tokens, source |-> "", count |-> 0]

broadcastVolumeUpdate(tokens) ==
  [type |-> "VOLUME_UPDATE", tokens |-> tokens, source |-> "", count |-> 0]

(***************************************************************************)
(* Handlers that run a refresh cycle.  result is what refreshTokens        *)
(* returned: [allTokens, changedTokens].                                   *)
(***************************************************************************)
RefreshResult(allTokens, changedTokens) == [allTokens |-> allTokens, changedTokens |-> changedTokens]

\* TokenController.refreshTokens
ManualRefreshPush(result) ==
  IF Len(result.allTokens) > 0
  THEN IF Len(result.changedTokens) > 0 THEN broadcastUpdate(result.changedTokens, "manual") ELSE NoMessage
  ELSE NoMessage

\* TokenService.detectPriceChanges is called by the scheduler and defined
\* nowhere in the sources: it yields the changed subset of the cycle, which
\* is what the scheduler is specified to publish
detectPriceChanges(result) == result.changedTokens

VolumeThreshold == 10000

\* TokenScheduler.updateHotTokens; tokens is the full set of the cycle
updateHotTokensPush(result) ==
  LET changedTokens == detectPriceChanges(result)
  IN  IF Len(changedTokens) > 0 THEN broadcastPriceUpdate(changedTokens) ELSE NoMessage

\* TokenScheduler.updateRegularTokens
updateRegularTokensPush(result) ==
  LET tokens == result.allTokens
      volumeChanges == FilterSeq(tokens, {t \in Range(tokens) : t.volume_24h > VolumeThreshold})
  IN  IF Len(volumeChanges) > 0 THEN broadcastVolumeUpdate(volumeChanges) ELSE NoMessage

\* TokenScheduler.updateColdTokens
updateColdTokensPush(result) == NoMessage

HandlerPush(job, result) ==
  CASE job = "manual" -> ManualRefreshPush(result)
    [] job = "hot" -> updateHotTokensPush(result)
    [] job = "regular" -> updateRegularTokensPush(result)
    [] OTHER -> updateColdTokensPush(result)

(***************************************************************************)
(* TokenService.refreshTokens, lines 384-397, once the fetch has answered. *)
(* oldTokens is the snapshot read at line 381, newTokens the result of     *)
(* fetchAndEnrichTokens.  The outcome is "empty" (line 388: nothing is     *)
(* cached), "threw" (the error of detectChangedTokens leaves the function) *)
(* or "persist" (the cycle goes on to cacheTokensComprehensively).         *)
(***************************************************************************)
\* mutant: an empty result is cached like any other
refreshTokens_CachesEmpty(oldTokens, newTokens) ==
  LET detected == detectChangedTokens(newTokens, oldTokens)
  IN  IF detected.threw THEN [outcome |-> "threw", changedTokens |-> <<>>]
      ELSE [outcome |-> "persist", changedTokens |-> detected.value]

refreshTokens(oldTokens, newTokens) ==
  IF Len(newTokens) = 0 THEN [outcome |-> "empty", changedTokens |-> <<>>]
  ELSE LET detected == detectChangedTokens(newTokens, oldTokens)
       IN  IF detected.threw THEN [outcome |-> "threw", changedTokens |-> <<>>]
           ELSE [outcome |-> "persist", changedTokens |-> detected.value]

(***************************************************************************)
(* The service as a state machine.  A caller is a handler that runs        *)
(* refresh cycles: the scheduler (one job at a time) and the manual        *)
(* refresh endpoint.  Each caller has its own TokenService and so its own  *)
(* connection to the one cache store.  A step of a cycle runs from one     *)
(* answer of the store or of the sources to the next request to them.      *)
(***************************************************************************)
NumQueries == 2

Callers == {"scheduler", "manual"}

Jobs(c) == IF c = "scheduler" THEN {"hot", "regular", "cold"} ELSE {"manual"}

\* what the sources report in the runs examined
UpAlpha ==
  Token(AddrOf(1), "Alpha", "ALP", 1000000000, 50000, 1000, 20000, 90000, 5000,
        10, 100, 500, 150, -200, 300, "raydium", 1)

UpBeta ==
  Token(AddrOf(2), "Beta", "BET", 2000000000, 8000, 0, 5000, 0, 3000, 0, 40, 0, -50, 100, 0, "orca", 1)

\* a record without volume or liquidity: the dashboard filter drops it
UpDust ==
  Token(AddrOf(3), "Dust", "DST", 1000, 0, 0, 0, 0, 0, 0, 0, 0, 0, 0, 0, "raydium", 1)

UpGeckoAlpha ==
  [Token(AddrOf(1), "Alpha", "ALP", 1100000000, 60000, 500, 30000, 0, 4000,
         5, 50, 0, 100, -100, 0, "GeckoTerminal", 2)
     EXCEPT !.volume_sol = Undefined, !.transaction_count = Undefined]

QueryOutcomes == {QueryFailed, QueryOk(<<UpAlpha, UpBeta>>), QueryOk(<<UpDust>>)}

GeckoResponses == {QueryFailed, QueryOk(<<UpGeckoAlpha>>)}

\* fetched and stored are history: whether the primary fetch of the cycle
\* produced a record, and whether the store accepted every write the cycle
\* has issued
Idle ==
  [pc |-> "idle", job |-> "", oldTokens |-> JsonNull, allTokens |-> <<>>, changedTokens |-> <<>>,
   fetched |-> FALSE, stored |-> FALSE, message |-> NoMessage]

Init ==
  /\ call = NoCall
  /\ ret = NotYet
  /\ cache = <<>>
  /\ redisUp = TRUE
  /\ cyc = [c \in Callers |-> Idle]

\* refreshTokens, line 381: the handler starts and reads the prior snapshot
StartRefresh(c) ==
  /\ cyc[c].pc = "idle"
  /\ \E job \in Jobs(c) :
       cyc' = [cyc EXCEPT ![c] = [Idle EXCEPT !.pc = "FETCHING", !.job = job,
                                              !.oldTokens = CacheGetTokens(cache, redisUp, NoFilters)]]
  /\ UNCHANGED <<call, ret, cache, redisUp>>

\* the comparison made against the store as it is now, not against the
\* snapshot the cycle read
FetchAndDetectWith_CurrentCache(c, dexOutcomes, geckoResponse) ==
  LET newTokens == fetchAndEnrichTokens(dexOutcomes, <<geckoResponse>>)
      result == refreshTokens(CacheGetTokens(cache, redisUp, NoFilters), newTokens)
      fetched == Len(searchTokens(dexOutcomes)) > 0
  IN  cyc' = [cyc EXCEPT ![c] =
                [@ EXCEPT !.pc = CASE result.outcome = "empty" -> "DONE"
                                   [] result.outcome = "threw" -> "FAILED"
                                   [] OTHER -> "PERSISTING",
                          !.oldTokens = JsonNull,
                          !.allTokens = IF result.outcome = "empty" THEN <<>> ELSE newTokens,
                          !.changedTokens = result.changedTokens,
                          !.fetched = fetched]]

\* refreshTokens, lines 384-392: the new set is built from what the sources
\* answered and compared with the snapshot
FetchAndDetectWith(c, dexOutcomes, geckoResponse) ==
  LET newTokens == fetchAndEnrichTokens(dexOutcomes, <<geckoResponse>>)
      result == refreshTokens(cyc[c].oldTokens, newTokens)
      fetched == Len(searchTokens(dexOutcomes)) > 0
  IN  cyc' = [cyc EXCEPT ![c] =
                [@ EXCEPT !.pc = CASE result.outcome = "empty" -> "DONE"
                                   [] result.outcome = "threw" -> "FAILED"
                                   [] OTHER -> "PERSISTING",
                          !.oldTokens = JsonNull,
                          !.allTokens = IF result.outcome = "empty" THEN <<>> ELSE newTokens,
                          !.changedTokens = result.changedTokens,
                          !.fetched = fetched]]

\* the sources answer with one of the given outcomes
FetchAndDetectFrom(c, outcomes, responses) ==
  /\ cyc[c].pc = "FETCHING"
  /\ \E dexOutcomes \in [1..NumQueries -> outcomes], geckoResponse \in responses :
       FetchAndDetectWith(c, dexOutcomes, geckoResponse)
  /\ UNCHANGED <<call, ret, cache, redisUp>>

FetchAndDetect(c) == FetchAndDetectFrom(c, QueryOutcomes, GeckoResponses)

\* cacheTokensComprehensively, line 403
PersistAll(c) ==
  /\ cyc[c].pc = "PERSISTING"
  /\ cache' = CacheAllTokens(cache, redisUp, cyc[c].allTokens)
  /\ cyc' = [cyc EXCEPT ![c] = [@ EXCEPT !.pc = "PERSISTING_INDIVIDUAL", !.stored = redisUp]]
  /\ UNCHANGED <<call, ret, redisUp>>

\* cacheTokensComprehensively, lines 406-409
PersistIndividual(c) ==
  /\ cyc[c].pc = "PERSISTING_INDIVIDUAL"
  /\ cache' = CacheIndividualTokens(cache, redisUp, cyc[c].allTokens)
  /\ cyc' = [cyc EXCEPT ![c] = [@ EXCEPT !.pc = "PERSISTING_COMBINATIONS", !.stored = @ /\ redisUp]]
  /\ UNCHANGED <<call, ret, redisUp>>

\* cacheTokensComprehensively, lines 412-434, and the return of line 397
PersistCombinations(c) ==
  /\ cyc[c].pc = "PERSISTING_COMBINATIONS"
  /\ cache' = CacheCombinations(cache, redisUp, cyc[c].allTokens, commonFilterCombinations)
  /\ cyc' = [cyc EXCEPT ![c] = [@ EXCEPT !.pc = "DONE", !.stored = @ /\ redisUp]]
  /\ UNCHANGED <<call, ret, redisUp>>

\* the handler receives the result of the cycle and pushes
Publish(c) ==
  /\ cyc[c].pc = "DONE"
  /\ cyc[c].job \in Jobs(c)
  /\ cyc' = [cyc EXCEPT ![c] =
               [@ EXCEPT !.pc = "PUBLISHED",
                         !.message = HandlerPush(cyc[c].job,
                                                 RefreshResult(cyc[c].allTokens, cyc[c].changedTokens))]]
  /\ UNCHANGED <<call, ret, cache, redisUp>>

\* the handler returns
Finish(c) ==
  /\ cyc[c].pc = "PUBLISHED"
  /\ cyc' = [cyc EXCEPT ![c] = Idle]
  /\ UNCHANGED <<call, ret, cache, redisUp>>

(***************************************************************************)
(* Spec: the two callers, their cycles overlapping freely, with a cache    *)
(* store that is reachable and written by the service alone.  No cycle     *)
(* fails in these runs, so the catch blocks of the handlers have no step.  *)
(***************************************************************************)
Next ==
  \/ \E c \in Callers : StartRefresh(c)
  \/ \E c \in Callers : FetchAndDetect(c)
  \/ \E c \in Callers : PersistAll(c)
  \/ \E c \in Callers : PersistIndividual(c)
  \/ \E c \in Callers : PersistCombinations(c)
  \/ \E c \in Callers : Publish(c)
  \/ \E c \in Callers : Finish(c)

Spec == Init /\ [][Next]_vars

\* a cycle of caller c that is past its fetch and produced no record
ZeroRecords(c) == cyc[c].pc \notin {"idle", "FETCHING"} /\ Len(cyc[c].allTokens) = 0

\* C1: every message a handler pushes after its refresh cycle, scheduled or
\* manual, carries exactly the changed subset that the change detection of
\* that cycle returned: no record that was not flagged, and never the full
\* set in its place.
C1_PushesChangedSubset ==
  \A c \in Callers :
    (cyc[c].pc = "PUBLISHED" /\ cyc[c].message # NoMessage) =>
      cyc[c].message.tokens = cyc[c].changedTokens

\* C6: a cycle whose primary queries all fail, or which otherwise produces
\* zero records, ends without a fault, returns an empty full set and an empty
\* changed subset, broadcasts nothing, and none of its steps changes a cache
\* key.
C6_ZeroRecordsLeaveCache ==
  [][\A c \in Callers :
       /\ (cyc[c].pc = "FETCHING" /\ cyc'[c].pc # "FETCHING" /\ ~cyc'[c].fetched) =>
            /\ cyc'[c].pc = "DONE"
            /\ cyc'[c].allTokens = <<>>
       /\ (cyc'[c].pc \notin {"idle", "FETCHING"} /\ Len(cyc'[c].allTokens) = 0) =>
            /\ cyc'[c].pc \in {"DONE", "PUBLISHED"}
            /\ cyc'[c].changedTokens = <<>>
            /\ cyc'[c].message = NoMessage
            /\ cyc'[c] # cyc[c] => cache' = cache
       /\ (ZeroRecords(c) /\ cyc'[c] # cyc[c]) => cache' = cache]_vars

C6_Witness ==
  \E c \in Callers :
    /\ cyc[c].pc = "PUBLISHED"
    /\ ~cyc[c].fetched
    /\ ZeroRecords(c)
    /\ "tokens:all" \in DOMAIN cache

(***************************************************************************)
(* SpecOutage: the manual refresh alone, with a cache store that becomes   *)
(* unreachable and reachable again at any moment                           *)
(***************************************************************************)
RedisFails ==
  /\ redisUp
  /\ redisUp' = FALSE
  /\ UNCHANGED <<call, ret, cache, cyc>>

RedisRecovers ==
  /\ ~redisUp
  /\ redisUp' = TRUE
  /\ UNCHANGED <<call, ret, cache, cyc>>

NextOutage ==
  \/ StartRefresh("manual")
  \/ FetchAndDetect("manual")
  \/ PersistAll("manual")
  \/ PersistIndividual("manual")
  \/ PersistCombinations("manual")
  \/ Publish("manual")
  \/ Finish("manual")
  \/ RedisFails
  \/ RedisRecovers

SpecOutage == Init /\ [][NextOutage]_vars

Stored(key, value) == key \in DOMAIN cache /\ cache[key] = value

\* C7: when a cycle has produced a non-empty full set S and the store has
\* accepted all of its writes, the cache holds S under the all-records key,
\* every record of S under the key of its address, and applyFilters(S, c)
\* under the key of every common filter combination c.
C7_WriteThrough ==
  \A c \in Callers :
    (cyc[c].pc = "DONE" /\ Len(cyc[c].allTokens) > 0 /\ cyc[c].stored) =>
      LET S == cyc[c].allTokens
      IN  /\ Stored("tokens:all", TokensJson(S))
          /\ \A i \in 1..Len(S) : Stored("token:" \o StrOf(S[i].token_address), TokenJson(S[i]))
          /\ \A k \in 1..Len(commonFilterCombinations) :
               LET f == commonFilterCombinations[k]
               IN  Stored(buildTokenKey(<<f>>), TokensJson(applyFilters(S, <<f>>)))

\* the cycle replaces the values an earlier cycle stored, and a combination
\* keeps fewer records than the full set has
C7_Witness ==
  \E c \in Callers :
    /\ cyc[c].pc = "DONE"
    /\ cyc[c].stored
    /\ Len(cyc[c].allTokens) = 2
    /\ Len(cyc[c].changedTokens) = 1
    /\ Stored("tokens:7d:volume:20", TokensJson(<<cyc[c].allTokens[1]>>))

(***************************************************************************)
(* SpecSharedStore: the manual refresh alone, with a cache store that      *)
(* another client writes too.  What that client leaves under the           *)
(* all-records key is not a list of records.                               *)
(***************************************************************************)
ForeignValues == {JsonObject, JsonArray(<<NullEntry>>)}

ForeignWrite ==
  /\ \E value \in ForeignValues : cache' = CacheSet(cache, redisUp, "tokens:all", value)
  /\ UNCHANGED <<call, ret, redisUp, cyc>>

\* the catch block of the handler: line 132 of the controller
HandleError(c) ==
  /\ cyc[c].pc = "FAILED"
  /\ cyc' = [cyc EXCEPT ![c] = Idle]
  /\ UNCHANGED <<call, ret, cache, redisUp>>

NextSharedStore ==
  \/ StartRefresh("manual")
  \/ FetchAndDetect("manual")
  \/ PersistAll("manual")
  \/ PersistIndividual("manual")
  \/ PersistCombinations("manual")
  \/ Publish("manual")
  \/ Finish("manual")
  \/ HandleError("manual")
  \/ ForeignWrite

SpecSharedStore == Init /\ [][NextSharedStore]_vars

\* C8: a cycle fails only while fetching: once its primary fetch has
\* produced a record it does not end in failure, whatever the prior snapshot
\* it read.
C8_FailsOnlyWhileFetching ==
  \A c \in Callers : ~(cyc[c].pc = "FAILED" /\ cyc[c].fetched)

(***************************************************************************)
(* SpecFetch: fetchAndEnrichTokens applied to the answers of the sources   *)
(***************************************************************************)
EthAddress == <<"0", "x">> \o Rep("a", 40)

\* primary records: X with and without activity, Y without and with
\* activity, and a record whose address is not a Solana address
FetchX == Token(AddrOf(1), "Xcoin", "XC", 5, 100, 10, 1000, 3000, 50, 1, 20, 60, 5, -5, 20, "raydium", 1)

FetchXIdle == Token(AddrOf(1), "Xcoin", "XC", 5, 100, 0, 0, 0, 0, 0, 0, 0, 0, 0, 0, "orca", 1)

FetchY == Token(AddrOf(2), "Ycoin", "YC", 8, 200, 0, 0, 0, 30, 0, 0, 0, 0, 0, 0, "raydium", 1)

FetchYActive == Token(AddrOf(2), "Ycoin", "YC", 8, 200, 40, 2000, 5000, 30, 3, 40, 90, 1, 2, 3, "raydium", 1)

FetchEth == Token(EthAddress, "Ether", "ETH", 9, 900, 7, 700, 800, 10, 1, 5, 9, 0, 0, 0, "uniswap", 1)

\* a record whose address is a single character
FetchTiny == Token(<<"x">>, "Tiny", "TN", 3, 30, 2, 300, 400, 5, 1, 4, 6, 0, 0, 0, "raydium", 1)

SecondaryToken(addr, name, ticker, price, mcap, v24h, liq, t24h) ==
  [Token(addr, name, ticker, price, mcap, 0, v24h, 0, liq, 0, t24h, 0, 0, 0, 0, "GeckoTerminal", 2)
     EXCEPT !.volume_sol = Undefined, !.transaction_count = Undefined]

GeckoX == SecondaryToken(AddrOf(1), "Xcoin", "XC", 6, 150, 500, 80, 7)

GeckoY == SecondaryToken(AddrOf(2), "Ycoin", "YC", 0, 0, 0, 0, 0)

GeckoEth == SecondaryToken(EthAddress, "Ether", "ETH", 1, 1, 1, 1, 1)

FetchOutcomes ==
  {QueryFailed, QueryOk(<<>>), QueryOk(<<FetchX, FetchY>>), QueryOk(<<FetchXIdle, FetchEth>>),
   QueryOk(<<FetchYActive>>), QueryOk(<<FetchEth>>), QueryOk(<<FetchTiny>>),
   QueryOk(<<FetchY, FetchXIdle, FetchYActive>>)}

FetchResponses ==
  {QueryFailed, QueryOk(<<>>), QueryOk(<<GeckoX>>), QueryOk(<<GeckoY, GeckoX>>), QueryOk(<<GeckoEth, GeckoX>>)}

InitFetch ==
  /\ call \in {[fn |-> "fetchAndEnrichTokens", dexOutcomes |-> d, geckoResponses |-> <<g>>] :
                 d \in [1..NumQueries -> FetchOutcomes], g \in FetchResponses}
              \cup {[fn |-> "searchTokens", dexOutcomes |-> d, geckoResponses |-> <<>>] :
                      d \in [1..NumQueries -> FetchOutcomes]}
  /\ ret = NotYet
  /\ SystemIdle

FetchStep ==
  /\ call.fn = "fetchAndEnrichTokens"
  /\ ret = NotYet
  /\ ret' = [done |-> TRUE, out |-> fetchAndEnrichTokens(call.dexOutcomes, call.geckoResponses)]
  /\ UNCHANGED <<call, cache, redisUp, cyc>>

\* the primary fetch on its own
SearchStep ==
  /\ call.fn = "searchTokens"
  /\ ret = NotYet
  /\ ret' = [done |-> TRUE, out |-> searchTokens(call.dexOutcomes)]
  /\ UNCHANGED <<call, cache, redisUp, cyc>>

NextFetch == FetchStep \/ SearchStep

SpecFetch == InitFetch /\ [][NextFetch]_vars

FetchDone == call.fn = "fetchAndEnrichTokens" /\ ret # NotYet

\* the answers of the queries that succeeded, one after the other
RECURSIVE ConcatOk(_)
ConcatOk(outcomes) ==
  IF outcomes = <<>> THEN <<>>
  ELSE (IF Head(outcomes).ok THEN Head(outcomes).tokens ELSE <<>>) \o ConcatOk(Tail(outcomes))

\* the records of a list whose address no earlier record of the list has
FirstSeen(tokens) ==
  LET keep == {i \in 1..Len(tokens) :
                 \A j \in 1..(i - 1) : tokens[j].token_address # tokens[i].token_address}
      nth(k) == CHOOSE i \in keep : Cardinality({j \in keep : j <= i}) = k
  IN  [k \in 1..Cardinality(keep) |-> tokens[nth(k)]]

\* the primary result list: the records of the queries that answered, each
\* address once
PrimaryList(outcomes) == FirstSeen(ConcatOk(outcomes))

\* the secondary result list: what the secondary source answered, nothing
\* when it failed or was not asked
SecondaryList(outcomes, responses) ==
  IF \E a \in AddressesOf(PrimaryList(outcomes)) : isValidSolanaAddress(a)
  THEN IF responses[1].ok THEN responses[1].tokens ELSE <<>>
  ELSE <<>>

\* C14: for any primary and secondary result lists, the full set a refresh
\* cycle emits is the dashboard filter applied to the set merge of the two
\* lists; primary [X with vol24h 100, Y with vol24h 0] and secondary [X with
\* vol24h 50] yield exactly [X] with vol24h 150.
C14_FilterOfMerge ==
  FetchDone =>
    ret.out = filterForDashboard(mergeTokenData(PrimaryList(call.dexOutcomes),
                                                SecondaryList(call.dexOutcomes, call.geckoResponses)))

C14_Witness ==
  /\ FetchDone
  /\ PrimaryList(call.dexOutcomes) = <<FetchX, FetchY>>
  /\ call.geckoResponses = <<QueryOk(<<GeckoX>>)>>
  /\ FetchX.volume_24h = 1000 /\ FetchY.volume_24h = 0 /\ GeckoX.volume_24h = 500
  /\ Len(ret.out) = 1
  /\ ret.out[1].token_address = FetchX.token_address
  /\ ret.out[1].volume_24h = 1500

(***************************************************************************)
(* SpecIntake: the manual refresh alone, the primary source answering also *)
(* with records whose address is not a Solana address                      *)
(***************************************************************************)
IntakeOutcomes == {QueryFailed, QueryOk(<<FetchX, FetchY>>), QueryOk(<<FetchEth>>), QueryOk(<<FetchTiny>>)}

IntakeResponses == {QueryFailed, QueryOk(<<GeckoX>>)}

FetchAndDetectWide(c) == FetchAndDetectFrom(c, IntakeOutcomes, IntakeResponses)

NextIntake ==
  \/ StartRefresh("manual")
  \/ FetchAndDetectWide("manual")
  \/ PersistAll("manual")
  \/ PersistIndividual("manual")
  \/ PersistCombinations("manual")
  \/ Publish("manual")
  \/ Finish("manual")

SpecIntake == Init /\ [][NextIntake]_vars

\* the records stored under the all-records key
StoredAll == IF "tokens:all" \in DOMAIN cache THEN TokensOf(cache["tokens:all"]) ELSE <<>>

DescendingVolume24h(tokens) ==
  \A i \in 1..Len(tokens) : \A j \in i..Len(tokens) : tokens[i].volume_24h >= tokens[j].volume_24h

\* C15: in every reachable state every record stored under the all-records
\* key has an address, a name and a ticker of at least 2 characters each, a
\* ticker other than "Unknown", volume24h > 0 and liquidity > 0, and the
\* stored list is in descending volume24h order.
C15_StoredRecordsClean ==
  /\ \A i \in 1..Len(StoredAll) :
       LET token == StoredAll[i]
       IN  /\ Len(token.token_address) >= 2
           /\ Len(token.token_name) >= 2
           /\ Len(token.token_ticker) >= 2
           /\ token.token_ticker # "Unknown"
           /\ token.volume_24h > 0
           /\ token.liquidity_sol > 0
  /\ DescendingVolume24h(StoredAll)

\* C17: every record of a full set that a refresh cycle emits, and so stores
\* in the cache, has an address the address validator accepts: 32 to 44
\* base58 characters, not empty and without 0x prefix.
C17_EmittedAddressesValid ==
  \A c \in Callers :
    \A i \in 1..Len(cyc[c].allTokens) : isValidSolanaAddress(cyc[c].allTokens[i].token_address)

(***************************************************************************)
(* Single-record lookup: TokenController.getToken and TokenService.getToken *)
(***************************************************************************)
Response(status, data) == [done |-> TRUE, status |-> status, data |-> data]

\* mutant: the character check is left out
ControllerAddressOk_LengthOnly(address) ==
  /\ Len(address) >= 32
  /\ Len(address) <= 44

\* TokenController.getToken, lines 69-80: the address check of the request
ControllerAddressOk(address) ==
  /\ Len(address) >= 32
  /\ Len(address) <= 44
  /\ \A i \in 1..Len(address) : address[i] \in Base58

\* TokenService.getToken after a cache miss.  dexAnswer is the outcome of
\* DexScreenerClient.getToken (failed, no record, or the first normalized
\* record), geckoTokens the result of getMultipleTokens([address]).  wrote is
\* the record handed to cache.setToken, if any.
getTokenFromSources(dexAnswer, geckoTokens) ==
  IF ~dexAnswer.ok THEN [threw |-> TRUE, token |-> <<>>, wrote |-> <<>>]
  ELSE IF Len(dexAnswer.tokens) = 0 THEN [threw |-> FALSE, token |-> <<>>, wrote |-> <<>>]
  ELSE LET dexToken == dexAnswer.tokens[1]
       IN  IF Len(geckoTokens) > 0
           THEN LET merged == mergeTokenPair(dexToken, geckoTokens[1])
                IN  [threw |-> FALSE, token |-> <<merged>>, wrote |-> <<merged>>]
           ELSE [threw |-> FALSE, token |-> <<dexToken>>, wrote |-> <<dexToken>>]

(***************************************************************************)
(* SpecLookup: single-record lookups, one at a time, next to the manual    *)
(* refresh.  call is the request being handled, ret its response.          *)
(***************************************************************************)
LookupAddresses == {AddrOf(1), AddrOf(3), EthAddress}

\* what the primary source knows about an address
LookupDexAnswers(address) ==
  {QueryFailed, QueryOk(<<>>)}
    \cup {QueryOk(<<t>>) : t \in {u \in {UpAlpha, UpDust} : u.token_address = address}}

LookupGeckoResponses(address) ==
  {QueryFailed} \cup {QueryOk(<<t>>) : t \in {u \in {UpGeckoAlpha} : u.token_address = address}}

\* the request arrives: controller lines 67-80, then service line 356
GetTokenRequestFrom(addresses) ==
  /\ call = NoCall
  /\ \E address \in addresses :
       LET cached == CacheGet(cache, redisUp, TokenKey(address))
       IN  IF ~ControllerAddressOk(address)
           THEN /\ call' = [fn |-> "getToken", address |-> address, pc |-> "ANSWERED"]
                /\ ret' = Response(400, JsonNull)
           ELSE IF cached.kind # "null"
           THEN /\ call' = [fn |-> "getToken", address |-> address, pc |-> "ANSWERED"]
                /\ ret' = Response(200, cached)
           ELSE /\ call' = [fn |-> "getToken", address |-> address, pc |-> "LOOKING_UP"]
                /\ ret' = NotYet
  /\ UNCHANGED <<cache, redisUp, cyc>>

GetTokenRequest == GetTokenRequestFrom(LookupAddresses)

\* the sources answer: service lines 359-376, controller lines 85-93
GetTokenFromSources ==
  /\ call.fn = "getToken"
  /\ call.pc = "LOOKING_UP"
  /\ \E dexAnswer \in LookupDexAnswers(call.address), geckoResponse \in LookupGeckoResponses(call.address) :
       LET geckoTokens == IF dexAnswer.ok /\ Len(dexAnswer.tokens) > 0
                          THEN getMultipleTokens(<<call.address>>, <<geckoResponse>>) ELSE <<>>
           result == getTokenFromSources(dexAnswer, geckoTokens)
       IN  /\ cache' = IF result.wrote = <<>> THEN cache ELSE CacheSetToken(cache, redisUp, result.wrote[1])
           /\ ret' = IF result.threw THEN Response(500, JsonNull)
                     ELSE IF result.token = <<>> THEN Response(404, JsonNull)
                     ELSE Response(200, TokenJson(result.token[1]))
  /\ call' = [call EXCEPT !.pc = "ANSWERED"]
  /\ UNCHANGED <<redisUp, cyc>>

\* the response has been sent
GetTokenDone ==
  /\ call.fn = "getToken"
  /\ call.pc = "ANSWERED"
  /\ call' = NoCall
  /\ ret' = NotYet
  /\ UNCHANGED <<cache, redisUp, cyc>>

NextLookup ==
  \/ GetTokenRequest
  \/ GetTokenFromSources
  \/ GetTokenDone
  \/ StartRefresh("manual")
  \/ FetchAndDetect("manual")
  \/ PersistAll("manual")
  \/ PersistIndividual("manual")
  \/ PersistCombinations("manual")
  \/ Publish("manual")
  \/ Finish("manual")

SpecLookup == Init /\ [][NextLookup]_vars

\* the records of a stored value: a list of records or one record
RecordsOf(json) == {json.items[i].tok[1] : i \in {j \in 1..Len(json.items) : json.items[j].kind = "token"}}

PassesDashboardFilter(token) == filterForDashboard(<<token>>) = <<token>>

\* C16: no record is in the cache, under the all-records key, a pre-filtered
\* key or a per-address key, written by a refresh cycle or by a single-record
\* lookup, unless it passes the dashboard quality filter.
C16_CachedRecordsPassFilter ==
  \A key \in DOMAIN cache : \A token \in RecordsOf(cache[key]) : PassesDashboardFilter(token)

(***************************************************************************)
(* SpecFilter: applyFilters applied to record lists and filter objects     *)
(***************************************************************************)
MaxPageLen == 3

\* records that differ in what each period and each sort key sees; the
\* records of variant 2 tie in 24h volume, those of variant 1 in market cap
PageToken(i, v) ==
  IF v = 1
  THEN Token(AddrOf(i), "Token", "TK", 1, 50, 0, 10 * i, 7, 1, 0, 1, 0, i, 0 - i, 0, "raydium", 1)
  ELSE Token(AddrOf(i), "Token", "TK", 1, 10 * i, 5, 20, 0, 1, 2, 1, 0, 0 - i, i, 3, "raydium", 1)

PageTokens == {PageToken(i, v) : i \in 1..MaxPageLen, v \in 1..2}

PageLists ==
  UNION {{l \in [1..n -> PageTokens] : DistinctAddresses(l)} : n \in 0..MaxPageLen}

\* a cursor is absent, the address of a record, or an address no record has
PageCursors == {<<>>, EthAddress} \cup {AddrOf(i) : i \in 1..MaxPageLen}

PageFilters ==
  {Filters(period, sortBy, limit, cursor) :
     period \in {"", "1h", "24h", "7d"}, sortBy \in {"", "volume", "price_change", "market_cap"},
     limit \in 0..2, cursor \in PageCursors}

\* the example of 25 records in descending 24h volume
BookChars ==
  <<"1", "2", "3", "4", "5", "6", "7", "8", "9", "a", "b", "c", "d", "e", "f", "g", "h", "i", "j",
    "k", "m", "n", "o", "p", "q">>

BookAddr(k) == Rep("P", 31) \o <<BookChars[k]>>

BookList ==
  [k \in 1..25 |-> Token(BookAddr(k), "Token", "TK", 1, 1, 1, 1000 - k, 1, 1, 1, 1, 1, 0, 0, 0, "raydium", 1)]

InitFilter ==
  /\ call \in {[fn |-> "applyFilters", tokens |-> l, filters |-> <<f>>] : l \in PageLists, f \in PageFilters}
              \cup {[fn |-> "applyFilters", tokens |-> l, filters |-> NoFilters] : l \in PageLists}
              \cup {[fn |-> "applyFilters", tokens |-> BookList,
                     filters |-> <<Filters("", "volume", 5, BookAddr(10))>>]}
              \cup {[fn |-> "applySorting", tokens |-> l, sortBy |-> sortBy, period |-> period] :
                      l \in PageLists, sortBy \in {"volume", "price_change", "market_cap"},
                      period \in {"", "1h", "24h", "7d"}}
  /\ ret = NotYet
  /\ SystemIdle

FilterStep ==
  /\ call.fn = "applyFilters"
  /\ ret = NotYet
  /\ ret' = [done |-> TRUE, out |-> applyFilters(call.tokens, call.filters)]
  /\ UNCHANGED <<call, cache, redisUp, cyc>>

\* the sort step on its own
SortStep ==
  /\ call.fn = "applySorting"
  /\ ret = NotYet
  /\ ret' = [done |-> TRUE, out |-> applySorting(call.tokens, call.sortBy, call.period)]
  /\ UNCHANGED <<call, cache, redisUp, cyc>>

NextFilter == FilterStep \/ SortStep

SpecFilter == InitFilter /\ [][NextFilter]_vars

FilterDone == call.fn = "applyFilters" /\ ret # NotYet

\* the filtered and sorted order of a request, before cursor and limit
RequestedOrder(tokens, f) ==
  LET kept == IF f.period # "" THEN applyPeriodFilter(tokens, f.period) ELSE tokens
  IN  IF f.sortBy # "" THEN applySorting(kept, f.sortBy, f.period) ELSE kept

\* the position in the order of the record with the given address, 0 if none
PositionOf(order, address) ==
  IF \E i \in 1..Len(order) : order[i].token_address = address
  THEN CHOOSE i \in 1..Len(order) : order[i].token_address = address
  ELSE 0

\* C18: with a cursor equal to the address of the record at position i of the
\* filtered and sorted order and a positive limit n, applyFilters returns the
\* records at positions i+1 to i+n of that order, in order, fewer if the list
\* ends sooner; a cursor that matches no record drops nothing, so the first n
\* records are returned.
C18_PageAfterCursor ==
  (FilterDone /\ call.filters # <<>> /\ call.filters[1].cursor # <<>> /\ call.filters[1].limit > 0) =>
    LET f == call.filters[1]
        order == RequestedOrder(call.tokens, f)
        i == PositionOf(order, f.cursor)
        last == IF i + f.limit < Len(order) THEN i + f.limit ELSE Len(order)
    IN  ret.out = [k \in 1..(last - i) |-> order[i + k]]

\* 25 records, cursor = record #10, limit 5: records #11 to #15
C18_Witness ==
  /\ FilterDone
  /\ Len(call.tokens) = 25
  /\ call.filters[1].cursor = call.tokens[10].token_address
  /\ call.filters[1].limit = 5
  /\ ret.out = SubSeq(call.tokens, 11, 15)

(***************************************************************************)
(* List requests: TokenController.getTokens, getTrending and getByVolume,  *)
(* and TokenService.getTokens.  A query carries period, sortBy, limit and  *)
(* cursor as the client sent them: the limit is the text of the parameter, *)
(* empty when the request has none.                                        *)
(***************************************************************************)
Query(period, sortBy, limit, cursor) ==
  [period |-> period, sortBy |-> sortBy, limit |-> limit, cursor |-> cursor]

HexLower == <<"0", "1", "2", "3", "4", "5", "6", "7", "8", "9", "a", "b", "c", "d", "e", "f">>

HexUpper == <<"0", "1", "2", "3", "4", "5", "6", "7", "8", "9", "A", "B", "C", "D", "E", "F">>

IsDigit(c, radix) == \E i \in 1..radix : HexLower[i] = c \/ HexUpper[i] = c

DigitValue(c) == (CHOOSE i \in 1..16 : HexLower[i] = c \/ HexUpper[i] = c) - 1

RECURSIVE DropSpaces(_)
DropSpaces(s) == IF s # <<>> /\ Head(s) = " " THEN DropSpaces(Tail(s)) ELSE s

\* the longest prefix of s made of digits of the radix
RECURSIVE DigitPrefix(_, _)
DigitPrefix(s, radix) ==
  IF s # <<>> /\ IsDigit(Head(s), radix) THEN <<Head(s)>> \o DigitPrefix(Tail(s), radix) ELSE <<>>

RECURSIVE NumberOf(_, _, _)
NumberOf(digits, radix, acc) ==
  IF digits = <<>> THEN acc ELSE NumberOf(Tail(digits), radix, acc * radix + DigitValue(Head(digits)))

\* parseInt(string) without a radix: leading blanks, a sign, a 0x prefix for
\* radix 16, then the longest run of digits; NaN when there is no digit
parseInt(s) ==
  LET t == DropSpaces(s)
      signed == t # <<>> /\ t[1] \in {"+", "-"}
      u == IF signed THEN Tail(t) ELSE t
      hex == StartsWith(u, <<"0", "x">>) \/ StartsWith(u, <<"0", "X">>)
      radix == IF hex THEN 16 ELSE 10
      digits == DigitPrefix(IF hex THEN SubSeq(u, 3, Len(u)) ELSE u, radix)
      magnitude == NumberOf(digits, radix, 0)
  IN  IF digits = <<>> THEN [nan |-> TRUE, value |-> 0]
      ELSE [nan |-> FALSE, value |-> IF signed /\ t[1] = "-" THEN 0 - magnitude ELSE magnitude]

\* limit ? parseInt(limit) : default
ParsedLimitOr(limit, default) ==
  IF limit = <<>> THEN [nan |-> FALSE, value |-> default] ELSE parseInt(limit)

\* isNaN(parsedLimit) || parsedLimit < 1 || parsedLimit > max
LimitOk(parsed, max) == ~parsed.nan /\ parsed.value >= 1 /\ parsed.value <= max

\* getTokens, line 37
ParsedLimit(query) == ParsedLimitOr(query.limit, 20)

\* getTokens, lines 23-41: the three checks that answer 400
ControllerQueryOk(query) ==
  /\ query.period \in {"", "1h", "24h", "7d"}
  /\ query.sortBy \in {"", "volume", "price_change", "market_cap"}
  /\ LimitOk(ParsedLimit(query), 100)

\* getTokens, lines 43-48
ControllerFilters(query) ==
  Filters(query.period, query.sortBy, ParsedLimit(query).value, query.cursor)

\* getTrending, lines 141-147 and 149-152
TrendingQueryOk(query) == LimitOk(ParsedLimitOr(query.limit, 10), 50)

TrendingFilters(query) == Filters("", "price_change", ParsedLimitOr(query.limit, 10).value, <<>>)

\* getByVolume, lines 166-179 and 181-185
VolumeQueryOk(query) ==
  /\ LimitOk(ParsedLimitOr(query.limit, 20), 50)
  /\ query.period \in {"", "1h", "24h", "7d"}

VolumeFilters(query) == Filters(query.period, "volume", ParsedLimitOr(query.limit, 20).value, <<>>)

ListHandlers == {"getTokens", "getTrending", "getByVolume"}

HandlerQueryOk(fn, query) ==
  CASE fn = "getTokens" -> ControllerQueryOk(query)
    [] fn = "getTrending" -> TrendingQueryOk(query)
    [] OTHER -> VolumeQueryOk(query)

HandlerFilters(fn, query) ==
  CASE fn = "getTokens" -> ControllerFilters(query)
    [] fn = "getTrending" -> TrendingFilters(query)
    [] OTHER -> VolumeFilters(query)

\* mutant: any non-empty page announces a next page
ListBody_NonEmptyHasNext(tokens, filters) ==
  [tokens |-> tokens,
   hasNext |-> Len(tokens) > 0,
   nextCursor |-> IF Len(tokens) > 0 THEN <<tokens[Len(tokens)].token_address>> ELSE <<>>]

\* controller lines 53-59: the body of the response
ListBody(tokens, filters) ==
  [tokens |-> tokens,
   hasNext |-> Len(tokens) = filters.limit,
   nextCursor |-> IF Len(tokens) > 0 THEN <<tokens[Len(tokens)].token_address>> ELSE <<>>]

\* getTrending line 156, getByVolume line 189: the page without pagination
PlainBody(tokens) == [tokens |-> tokens]

HandlerBody(fn, tokens, filters) ==
  IF fn = "getTokens" THEN ListBody(tokens, filters) ELSE PlainBody(tokens)

(***************************************************************************)
(* SpecList: list requests, one at a time, next to the manual refresh.     *)
(* The controller has one TokenService: the refresh a list request runs    *)
(* on an empty cache occupies the cycle of the manual caller, with the job *)
(* "getTokens".  The store is reachable and well formed, so the catch      *)
(* blocks have no step.                                                    *)
(***************************************************************************)
ListQueries ==
  {Query("24h", "volume", limit, cursor) : limit \in {<<>>, <<"1">>}, cursor \in {<<>>, AddrOf(1), AddrOf(2)}}
    \cup {Query("30d", "volume", <<>>, <<>>), Query("24h", "name", <<>>, <<>>),
          Query("24h", "volume", <<"1", "0", "1">>, <<>>)}

\* the request arrives at a handler: its validation, then service lines
\* 322-326
ListRequestFrom(fn, queries) ==
  /\ call = NoCall
  /\ \E query \in queries :
       IF ~HandlerQueryOk(fn, query)
       THEN /\ call' = [fn |-> fn, query |-> query, pc |-> "ANSWERED"]
            /\ ret' = Response(400, JsonNull)
       ELSE LET filters == HandlerFilters(fn, query)
                cachedTokens == CacheGetTokens(cache, redisUp, <<filters>>)
            IN  IF Len(cachedTokens.items) > 0
                THEN /\ call' = [fn |-> fn, query |-> query, pc |-> "ANSWERED"]
                     /\ ret' = Response(200, HandlerBody(fn, TokensOf(cachedTokens), filters))
                ELSE /\ call' = [fn |-> fn, query |-> query, pc |-> "READING_ALL"]
                     /\ ret' = NotYet
  /\ UNCHANGED <<cache, redisUp, cyc>>

\* controller lines 18-50
GetTokensRequest == ListRequestFrom("getTokens", ListQueries)

\* service lines 329-340: the all-records snapshot is filtered and the page
\* stored under the key of the filters
GetTokensFromAll ==
  /\ call.fn \in ListHandlers
  /\ call.pc = "READING_ALL"
  /\ LET filters == HandlerFilters(call.fn, call.query)
         allCachedTokens == CacheGetTokens(cache, redisUp, NoFilters)
         filteredTokens == applyFilters(TokensOf(allCachedTokens), <<filters>>)
     IN  /\ Len(allCachedTokens.items) > 0
         /\ cache' = CacheSetTokens(cache, redisUp, filteredTokens, <<filters>>)
         /\ ret' = Response(200, HandlerBody(call.fn, filteredTokens, filters))
  /\ call' = [call EXCEPT !.pc = "ANSWERED"]
  /\ UNCHANGED <<redisUp, cyc>>

\* service lines 343-345: no snapshot either, the request runs refreshTokens
GetTokensRefresh ==
  /\ call.fn \in ListHandlers
  /\ call.pc = "READING_ALL"
  /\ Len(CacheGetTokens(cache, redisUp, NoFilters).items) = 0
  /\ cyc["manual"].pc = "idle"
  /\ cyc' = [cyc EXCEPT !["manual"] = [Idle EXCEPT !.pc = "FETCHING", !.job = "getTokens",
                                                   !.oldTokens = CacheGetTokens(cache, redisUp, NoFilters)]]
  /\ call' = [call EXCEPT !.pc = "REFRESHING"]
  /\ UNCHANGED <<ret, cache, redisUp>>

\* service line 346: the cycle has returned, its records are filtered
GetTokensAfterRefresh ==
  /\ call.fn \in ListHandlers
  /\ call.pc = "REFRESHING"
  /\ cyc["manual"].pc = "DONE"
  /\ cyc["manual"].job = "getTokens"
  /\ LET filters == HandlerFilters(call.fn, call.query)
     IN  ret' = Response(200, HandlerBody(call.fn, applyFilters(cyc["manual"].allTokens, <<filters>>),
                                          filters))
  /\ cyc' = [cyc EXCEPT !["manual"] = Idle]
  /\ call' = [call EXCEPT !.pc = "ANSWERED"]
  /\ UNCHANGED <<cache, redisUp>>

\* the response has been sent
GetTokensDone ==
  /\ call.fn \in ListHandlers
  /\ call.pc = "ANSWERED"
  /\ call' = NoCall
  /\ ret' = NotYet
  /\ UNCHANGED <<cache, redisUp, cyc>>

NextList ==
  \/ GetTokensRequest
  \/ GetTokensFromAll
  \/ GetTokensRefresh
  \/ GetTokensAfterRefresh
  \/ GetTokensDone
  \/ StartRefresh("manual")
  \/ FetchAndDetect("manual")
  \/ PersistAll("manual")
  \/ PersistIndividual("manual")
  \/ PersistCombinations("manual")
  \/ Publish("manual")
  \/ Finish("manual")

SpecList == Init /\ [][NextList]_vars

\* the step that answers a list request with a page
ListAnswers == call'.fn = "getTokens" /\ ret = NotYet /\ ret' # NotYet /\ ret'.status = 200

\* the set of records the service holds
CurrentSet == TokensOf(CacheGetTokens(cache, redisUp, NoFilters))

\* C19: the page of a list request honours the request's own cursor: when the
\* cursor is the address of a record of the current set, the page holds
\* neither that record nor a record that precedes it in the requested order;
\* a request without a cursor gets a page that starts at the first record of
\* the requested order.
C19_PageHonoursCursor ==
  [][ListAnswers =>
       LET filters == ControllerFilters(call'.query)
           order == RequestedOrder(CurrentSet', filters)
           i == PositionOf(order, filters.cursor)
           page == ret'.data.tokens
       IN  /\ (filters.cursor # <<>> /\ i > 0) =>
                AddressesOf(page) \cap {order[k].token_address : k \in 1..i} = {}
           /\ (filters.cursor = <<>> /\ Len(order) > 0) =>
                (Len(page) > 0 /\ page[1].token_address = order[1].token_address)]_vars

\* a list request has been answered with a page
ListAnswered == call.fn = "getTokens" /\ ret # NotYet /\ ret.status = 200

\* C20: in every list response hasNext is true exactly when the number of
\* returned records equals the requested limit, and nextCursor is the
\* address of the last returned record when the page is non-empty and is
\* absent when the page is empty.
C20_PaginationFields ==
  ListAnswered =>
    LET page == ret.data.tokens
    IN  /\ ret.data.hasNext <=> (Len(page) = ParsedLimit(call.query).value)
        /\ Len(page) > 0 => ret.data.nextCursor = <<page[Len(page)].token_address>>
        /\ Len(page) = 0 => ret.data.nextCursor = <<>>

\* a full page of one record out of two, answered with hasNext and a cursor
C20_Witness ==
  /\ ListAnswered
  /\ call.query.limit = <<"1">>
  /\ Len(ret.data.tokens) = 1
  /\ Len(CurrentSet) = 2
  /\ ret.data.hasNext
  /\ ret.data.nextCursor = <<ret.data.tokens[1].token_address>>

\* an empty page, answered without a cursor
C20_WitnessEmpty == ListAnswered /\ Len(ret.data.tokens) = 0 /\ ~ret.data.hasNext

SortDone == call.fn = "applySorting" /\ ret # NotYet

\* the key a request sorts by
SortKey(token, sortBy, period) ==
  CASE sortBy = "market_cap" -> token.market_cap_sol
    [] sortBy = "volume" /\ period = "1h" -> token.volume_1h
    [] sortBy = "volume" /\ period = "7d" -> token.volume_7d
    [] sortBy = "volume" -> token.volume_24h
    [] sortBy = "price_change" /\ period = "24h" -> token.price_24hr_change
    [] sortBy = "price_change" /\ period = "7d" -> token.price_7d_change
    [] OTHER -> token.price_1hr_change

\* C21: the sort step is a stable descending sort by the key selected by
\* (sortBy, period): market_cap uses market cap for every period, volume the
\* volume field of the period (24h when none is given), price_change the
\* price-change field of the period (1h when none is given); records with an
\* equal key keep their relative pre-sort order.
C21_StableDescendingSort ==
  SortDone =>
    LET before == call.tokens
        after == ret.out
        key(token) == SortKey(token, call.sortBy, call.period)
    IN  /\ Len(after) = Len(before)
        /\ Range(after) = Range(before)
        /\ \A i, j \in 1..Len(after) :
             i < j => /\ key(after[i]) >= key(after[j])
                      /\ key(after[i]) = key(after[j]) =>
                           PositionOf(before, after[i].token_address)
                             < PositionOf(before, after[j].token_address)

\* a market-cap sort under a period that moved the first record to the end
\* and left two records with equal market cap in their order
C21_Witness ==
  /\ SortDone
  /\ call.sortBy = "market_cap"
  /\ call.period = "1h"
  /\ Len(call.tokens) = 3
  /\ ret.out = <<call.tokens[2], call.tokens[3], call.tokens[1]>>
  /\ call.tokens[2].market_cap_sol = call.tokens[3].market_cap_sol

(***************************************************************************)
(* SpecAddress: isValidSolanaAddress applied to values of every kind       *)
(***************************************************************************)
\* a JavaScript value handed to the validator: a string, or something else
StringValue(chars) == [kind |-> "string", chars |-> chars]

OtherValue(kind) == [kind |-> kind, chars |-> <<>>]

\* line 759: typeof address !== 'string' answers false before any string
\* method is called
isValidSolanaAddressOf(value) ==
  IF value.kind # "string" THEN FALSE ELSE isValidSolanaAddress(value.chars)

\* how far around the two length limits the candidate strings reach
LengthSlack == 1

CandidateLengths ==
  {0, 1} \cup ((32 - LengthSlack)..(32 + LengthSlack)) \cup ((44 - LengthSlack)..(44 + LengthSlack))

GoodChars == {"1", "9", "A", "H", "J", "N", "P", "Z", "a", "k", "m", "z", "x"}

BadChars == {"0", "I", "O", "l", ".", "/", "+", " "}

\* s with the character at position p replaced by c
Spliced(s, p, c) == [i \in 1..Len(s) |-> IF i = p THEN c ELSE s[i]]

CandidateStrings ==
  {Rep(c, n) : c \in GoodChars \cup BadChars, n \in CandidateLengths}
    \cup UNION {{Spliced(Rep("A", n), p, c) : p \in {1, 2, n}, c \in GoodChars \cup BadChars} :
                  n \in CandidateLengths \ {0, 1}}
    \cup {<<"0", "x">> \o Rep(c, n) : c \in {"a", "0"}, n \in {30, 38, 40, 42, 43}}
    \cup {Rep("A", n) \o <<"i", "b", "c", "/">> \o Rep("B", m) : n \in {0, 14, 20}, m \in {0, 14, 20}}
    \cup {Rep("A", n) \o <<"i", "b", "c">> \o Rep("B", m) : n \in {0, 14, 20}, m \in {14, 20}}

CandidateValues ==
  {StringValue(chars) : chars \in CandidateStrings}
    \cup {OtherValue(kind) : kind \in {"undefined", "null", "number", "object", "boolean"}}

InitAddress ==
  /\ call \in {[fn |-> "isValidSolanaAddress", value |-> v] : v \in CandidateValues}
  /\ ret = NotYet
  /\ SystemIdle

AddressStep ==
  /\ call.fn = "isValidSolanaAddress"
  /\ ret = NotYet
  /\ ret' = [done |-> TRUE, out |-> isValidSolanaAddressOf(call.value)]
  /\ UNCHANGED <<call, cache, redisUp, cyc>>

NextAddress == AddressStep

SpecAddress == InitAddress /\ [][NextAddress]_vars

AddressDone == call.fn = "isValidSolanaAddress" /\ ret # NotYet

\* the base58 alphabet: digits 1-9, upper-case letters except I and O,
\* lower-case letters except l
Base58Alphabet ==
  ({"1", "2", "3", "4", "5", "6", "7", "8", "9"}
     \cup {"A", "B", "C", "D", "E", "F", "G", "H", "I", "J", "K", "L", "M", "N", "O", "P", "Q", "R",
           "S", "T", "U", "V", "W", "X", "Y", "Z"}
     \cup {"a", "b", "c", "d", "e", "f", "g", "h", "i", "j", "k", "l", "m", "n", "o", "p", "q", "r",
           "s", "t", "u", "v", "w", "x", "y", "z"})
    \ {"I", "O", "l"}

\* C22: the validator answers true exactly for a string of length 32 to 44
\* made only of base58 characters; it answers false for empty or non-string
\* input, a 0x prefix, a '.', the substring 'ibc/', any other length or
\* character, and its answer is a boolean for every input.
C22_ValidExactlyBase58 ==
  AddressDone =>
    LET v == call.value
        wellFormed == /\ v.kind = "string"
                      /\ Len(v.chars) >= 32
                      /\ Len(v.chars) <= 44
                      /\ \A i \in 1..Len(v.chars) : v.chars[i] \in Base58Alphabet
    IN  /\ ret.out \in BOOLEAN
        /\ ret.out <=> wellFormed
        /\ (v.kind # "string" \/ v.chars = <<>>) => ~ret.out
        /\ (v.kind = "string" /\ StartsWith(v.chars, <<"0", "x">>)) => ~ret.out
        /\ (v.kind = "string" /\ Includes(v.chars, <<".">>)) => ~ret.out
        /\ (v.kind = "string" /\ Includes(v.chars, <<"i", "b", "c", "/">>)) => ~ret.out

\* a 44-character base58 string is accepted
C22_Witness ==
  /\ AddressDone
  /\ call.value.kind = "string"
  /\ Len(call.value.chars) = 44
  /\ ret.out

\* a 0x-prefixed string of an accepted length is refused
C22_WitnessRefused ==
  /\ AddressDone
  /\ call.value.kind = "string"
  /\ StartsWith(call.value.chars, <<"0", "x">>)
  /\ Len(call.value.chars) = 42
  /\ ~ret.out

(***************************************************************************)
(* SpecGate: single-record lookups for every candidate string, the cache   *)
(* filled by the lookups alone.                                            *)
(***************************************************************************)
GetTokenRequestAny == GetTokenRequestFrom(CandidateStrings)

NextGate ==
  \/ GetTokenRequestAny
  \/ GetTokenFromSources
  \/ GetTokenDone

SpecGate == Init /\ [][NextGate]_vars

\* the step on which a single-record request arrives
LookupArrives == call = NoCall /\ call'.fn = "getToken"

\* C23: the address check of the single-record request accepts exactly the
\* strings the address validator accepts: the request is answered with a
\* validation error, the cache untouched and no source asked, if and only if
\* isValidSolanaAddress(address) is false.
C23_GateMatchesValidator ==
  [][LookupArrives =>
       LET rejected == ret' # NotYet /\ ret'.status = 400
       IN  /\ rejected <=> ~isValidSolanaAddress(call'.address)
           /\ rejected => (cache' = cache /\ call'.pc = "ANSWERED")]_vars

\* a string of an accepted length with a character outside the alphabet has
\* been refused
C23_Witness ==
  /\ call.fn = "getToken"
  /\ ret # NotYet
  /\ ret.status = 400
  /\ Len(call.address) = 32
  /\ ~isValidSolanaAddress(call.address)

(***************************************************************************)
(* SpecValidate: requests to the three listing endpoints with well-formed  *)
(* and malformed parameters.  The cache is filled by the refresh a request *)
(* runs when it finds the cache empty.                                     *)
(***************************************************************************)
LimitTexts ==
  {<<>>, <<"1">>, <<"1", "0", "0">>, <<"0">>, <<"1", "0", "1">>, <<"-", "1">>, <<"a", "b", "c">>,
   <<"1", "e", "3">>, <<"1", ".", "5">>}

TokensQueries ==
  {Query(period, sortBy, limit, <<>>) :
     period \in {"24h", "30d"}, sortBy \in {"volume", "name"}, limit \in LimitTexts}

TrendingQueries ==
  {Query("", "", limit, <<>>) :
     limit \in {<<>>, <<"5", "0">>, <<"5", "1">>, <<"0">>, <<"a", "b", "c">>, <<"1", "e", "3">>}}

VolumeQueries ==
  {Query(period, "", limit, <<>>) :
     period \in {"", "24h", "30d"}, limit \in {<<>>, <<"5", "0">>, <<"5", "1">>, <<"1", "e", "3">>}}

GetTokensRequestAny == ListRequestFrom("getTokens", TokensQueries)

GetTrendingRequest == ListRequestFrom("getTrending", TrendingQueries)

GetByVolumeRequest == ListRequestFrom("getByVolume", VolumeQueries)

NextValidate ==
  \/ GetTokensRequestAny
  \/ GetTrendingRequest
  \/ GetByVolumeRequest
  \/ GetTokensFromAll
  \/ GetTokensRefresh
  \/ GetTokensAfterRefresh
  \/ GetTokensDone
  \/ FetchAndDetect("manual")
  \/ PersistAll("manual")
  \/ PersistIndividual("manual")
  \/ PersistCombinations("manual")

SpecValidate == Init /\ [][NextValidate]_vars

\* the step on which a list request arrives
ListArrives == call = NoCall /\ call'.fn \in ListHandlers

\* the number a limit text denotes lies in lo..hi; a request without the
\* parameter asks for the default
LimitWithin(limit, lo, hi) ==
  \/ limit = <<>>
  \/ /\ \A i \in 1..Len(limit) : IsDigit(limit[i], 10)
     /\ NumberOf(limit, 10, 0) >= lo
     /\ NumberOf(limit, 10, 0) <= hi

PeriodKnown(period) == period \in {"", "1h", "24h", "7d"}

SortByKnown(sortBy) == sortBy \in {"", "volume", "price_change", "market_cap"}

MalformedQuery(fn, query) ==
  CASE fn = "getTokens" ->
         ~PeriodKnown(query.period) \/ ~SortByKnown(query.sortBy) \/ ~LimitWithin(query.limit, 1, 100)
    [] fn = "getTrending" -> ~LimitWithin(query.limit, 1, 50)
    [] OTHER -> ~PeriodKnown(query.period) \/ ~LimitWithin(query.limit, 1, 50)

\* C24: a list request whose period is outside {1h, 24h, 7d}, whose sortBy is
\* outside {volume, price_change, market_cap} or whose limit is not within
\* the range of the endpoint (1-100 for the general listing, 1-50 for the
\* trending and volume listings) is answered with a validation error before
\* any service call: the cache and the refresh cycles are untouched.
C24_MalformedRejected ==
  [][(ListArrives /\ MalformedQuery(call'.fn, call'.query)) =>
       /\ ret' # NotYet
       /\ ret'.status = 400
       /\ call'.pc = "ANSWERED"
       /\ cache' = cache
       /\ cyc' = cyc]_vars

SearchDone == call.fn = "searchTokens" /\ ret # NotYet

\* C25: the primary fetch result is the concatenation, in query order, of the
\* answers of the query variants that succeeded, with only the first record
\* of each address kept; a variant that failed is skipped and the others
\* still count.  No full set of a cycle has two records with one address.
C25_PrimaryDeduplicated ==
  /\ SearchDone =>
       /\ ret.out = FirstSeen(ConcatOk(call.dexOutcomes))
       /\ DistinctAddresses(ret.out)
  /\ FetchDone => DistinctAddresses(ret.out)

\* the first variant failed, the second answered with two records of one
\* address: the first of them is in the result, the other is not
C25_Witness ==
  /\ SearchDone
  /\ ~call.dexOutcomes[1].ok
  /\ call.dexOutcomes[2] = QueryOk(<<FetchY, FetchXIdle, FetchYActive>>)
  /\ ret.out = <<FetchY, FetchXIdle>>

(***************************************************************************)
(* SpecBatch: the calls to the secondary source for primary sets of up to  *)
(* MaxBatchAddr valid addresses, with and without other addresses          *)
(***************************************************************************)
MaxBatchAddr == 62

Base58Seq ==
  <<"1", "2", "3", "4", "5", "6", "7", "8", "9", "A", "B", "C", "D", "E", "F", "G", "H", "J", "K",
    "L", "M", "N", "P", "Q", "R", "S", "T", "U", "V", "W", "X", "Y", "Z", "a", "b", "c", "d", "e",
    "f", "g", "h", "i", "j", "k", "m", "n", "o", "p", "q", "r", "s", "t", "u", "v", "w", "x", "y", "z">>

\* the k-th of the valid addresses
BatchAddr(k) == Rep("B", 30) \o <<Base58Seq[((k - 1) \div 58) + 1], Base58Seq[((k - 1) % 58) + 1]>>

BatchToken(address) ==
  Token(address, "Token", "TK", 1, 1, 1, 10, 1, 1, 1, 1, 1, 0, 0, 0, "raydium", 1)

\* n valid addresses; shape says which other records the answer holds: an
\* Ethereum address in front, a short address at the end, a repeated record
BatchAnswer(n, shape) ==
  (IF shape \in {"eth", "both"} THEN <<BatchToken(EthAddress)>> ELSE <<>>)
    \o [k \in 1..n |-> BatchToken(BatchAddr(k))]
    \o (IF shape = "repeat" /\ n > 0 THEN <<BatchToken(BatchAddr(1))>> ELSE <<>>)
    \o (IF shape \in {"tiny", "both"} THEN <<BatchToken(<<"x">>)>> ELSE <<>>)

InitBatch ==
  /\ call \in {[fn |-> "getMultipleTokens", dexOutcomes |-> <<QueryOk(BatchAnswer(n, shape))>>] :
                 n \in 0..MaxBatchAddr, shape \in {"plain", "eth", "tiny", "both", "repeat"}}
  /\ ret = NotYet
  /\ SystemIdle

BatchStep ==
  /\ call.fn = "getMultipleTokens"
  /\ ret = NotYet
  /\ ret' = [done |-> TRUE, out |-> fetchAndEnrichTokensCalls(call.dexOutcomes)]
  /\ UNCHANGED <<call, cache, redisUp, cyc>>

NextBatch == BatchStep

SpecBatch == InitBatch /\ [][NextBatch]_vars

BatchDone == call.fn = "getMultipleTokens" /\ ret # NotYet

\* C26: only addresses that pass the validator are sent to the secondary
\* source, each at most once per enrichment request, every call carries at
\* most 30 addresses, and the calls of one request together cover every
\* valid address of the primary set.
C26_ValidOnceInBatches ==
  BatchDone =>
    LET calls == ret.out
        valid == {a \in AddressesOf(PrimaryList(call.dexOutcomes)) : isValidSolanaAddress(a)}
        slots == UNION {{<<k, i>> : i \in 1..Len(calls[k])} : k \in 1..Len(calls)}
    IN  /\ \A k \in 1..Len(calls) : Len(calls[k]) <= 30
        /\ \A x \in slots : calls[x[1]][x[2]] \in valid
        /\ \A x, y \in slots : calls[x[1]][x[2]] = calls[y[1]][y[2]] => x = y
        /\ valid = {calls[x[1]][x[2]] : x \in slots}

\* 31 valid addresses next to two invalid ones: a call of 30 and a call of 1
C26_Witness ==
  /\ BatchDone
  /\ Len(call.dexOutcomes[1].tokens) = 33
  /\ Len(ret.out) = 2
  /\ Len(ret.out[1]) = 30
  /\ Len(ret.out[2]) = 1

(***************************************************************************)
(* SpecDegraded: the manual refresh alone, the secondary source answering  *)
(* in some cycles and failing or returning nothing in others               *)
(***************************************************************************)
\* Alpha after its price has moved
UpAlphaMoved == [UpAlpha EXCEPT !.price_sol = 1500000000]

DegradedOutcomes ==
  {QueryFailed, QueryOk(<<UpAlpha, UpBeta>>), QueryOk(<<UpAlphaMoved, UpBeta>>), QueryOk(<<UpDust>>)}

\* the secondary source is unreachable, or answers without a record
NoEnrichment == {QueryFailed, QueryOk(<<>>)}

DegradedResponses == NoEnrichment \cup {QueryOk(<<UpGeckoAlpha>>)}

\* the answers of the sources to the cycle in progress are on their way:
\* call holds them for the cycle to consume
SourcesAnswer ==
  /\ cyc["manual"].pc = "FETCHING"
  /\ call.fn \in {"none", "consumed"}
  /\ \E d \in [1..NumQueries -> DegradedOutcomes], g \in DegradedResponses :
       call' = [fn |-> "answers", dexOutcomes |-> d, geckoResponses |-> <<g>>]
  /\ UNCHANGED <<ret, cache, redisUp, cyc>>

\* refreshTokens, lines 384-392, on the answers that arrived
FetchAndDetectAnswered ==
  /\ cyc["manual"].pc = "FETCHING"
  /\ call.fn = "answers"
  /\ FetchAndDetectWith("manual", call.dexOutcomes, call.geckoResponses[1])
  /\ call' = [call EXCEPT !.fn = "consumed"]
  /\ UNCHANGED <<ret, cache, redisUp>>

NextDegraded ==
  \/ StartRefresh("manual")
  \/ SourcesAnswer
  \/ FetchAndDetectAnswered
  \/ PersistAll("manual")
  \/ PersistIndividual("manual")
  \/ PersistCombinations("manual")
  \/ Publish("manual")
  \/ Finish("manual")

SpecDegraded == Init /\ [][NextDegraded]_vars

\* the cycle in progress has consumed answers in which the secondary source
\* failed or returned nothing
Degraded ==
  /\ call.fn = "consumed"
  /\ call.geckoResponses[1] \in NoEnrichment
  /\ cyc["manual"].pc \notin {"idle", "FETCHING"}

\* C27: if the secondary source fails or returns nothing, the refresh cycle
\* still completes: its full set is the dashboard-filtered primary records,
\* unmerged, change detection runs on that set against the prior snapshot,
\* and the cache write-through stores it like the set of any other cycle.
C27_PrimaryOnlyCycle ==
  Degraded =>
    LET full == filterForDashboard(PrimaryList(call.dexOutcomes))
        cycle == cyc["manual"]
    IN  /\ cycle.pc # "FAILED"
        /\ cycle.allTokens = full
        /\ (full = <<>>) = (cycle.pc \in {"DONE", "PUBLISHED"} /\ ~cycle.stored)
        /\ cycle.pc = "PERSISTING" =>
             cycle.changedTokens =
               detectChangedTokens(full, CacheGetTokens(cache, redisUp, NoFilters)).value
        /\ C7_WriteThrough

\* a cycle without enrichment after a cycle with it: the unmerged set has
\* been stored and Alpha is reported as changed
C27_Witness ==
  /\ Degraded
  /\ cyc["manual"].pc = "DONE"
  /\ cyc["manual"].stored
  /\ cyc["manual"].allTokens = <<UpAlpha, UpBeta>>
  /\ Len(cyc["manual"].changedTokens) = 1
  /\ Stored("tokens:all", TokensJson(<<UpAlpha, UpBeta>>))

(***************************************************************************)
(* SpecCacheDown: list requests and the manual refresh with a cache store  *)
(* that becomes unreachable and reachable again                            *)
(***************************************************************************)
DownQueries == {Query("24h", "volume", <<"1">>, <<>>)}

DownOutcomes == {QueryFailed, QueryOk(<<UpAlpha, UpBeta>>)}

FetchAndDetectDown(c) == FetchAndDetectFrom(c, DownOutcomes, GeckoResponses)

GetTokensRequestDown == ListRequestFrom("getTokens", DownQueries)

NextCacheDown ==
  \/ GetTokensRequestDown
  \/ GetTokensFromAll
  \/ GetTokensRefresh
  \/ GetTokensAfterRefresh
  \/ GetTokensDone
  \/ StartRefresh("manual")
  \/ FetchAndDetectDown("manual")
  \/ PersistAll("manual")
  \/ PersistIndividual("manual")
  \/ PersistCombinations("manual")
  \/ Publish("manual")
  \/ Finish("manual")
  \/ RedisFails
  \/ RedisRecovers

SpecCacheDown == Init /\ [][NextCacheDown]_vars

EmptyList == JsonArray(<<>>)

\* C28: while the cache store is unreachable every read yields 'absent' and
\* every write is a no-op that raises nothing: a refresh cycle that starts
\* then has an empty snapshot, still produces its full set and reports every
\* record of it as changed; a list request that arrives then is not answered
\* from the cache, runs a refresh and returns the filtered full set.
C28_CacheOutageDegrades ==
  [][LET cycle == cyc["manual"]
         after == cyc'["manual"]
     IN  /\ ~redisUp => cache' = cache
         /\ (~redisUp /\ cycle.pc = "idle" /\ after.pc = "FETCHING") => after.oldTokens = EmptyList
         /\ (cycle.pc = "FETCHING" /\ cycle.oldTokens = EmptyList /\ after.pc # "FETCHING") =>
              (after.pc \in {"DONE", "PERSISTING"} /\ after.changedTokens = after.allTokens)
         /\ (~redisUp /\ call = NoCall /\ call' # NoCall) => (call'.pc = "READING_ALL" /\ ret' = NotYet)
         /\ (~redisUp /\ call # NoCall /\ call.pc = "READING_ALL" /\ call' # call) =>
              (call'.pc = "REFRESHING" /\ after.pc = "FETCHING")
         /\ (call # NoCall /\ call.pc = "REFRESHING" /\ call' # call) =>
              /\ ret'.status = 200
              /\ ret'.data.tokens = applyFilters(cycle.allTokens, <<ControllerFilters(call.query)>>)]_vars

\* a list request answered with a page although nothing was ever stored
C28_Witness ==
  /\ call.fn = "getTokens"
  /\ ret # NotYet
  /\ ret.status = 200
  /\ Len(ret.data.tokens) > 0
  /\ ~redisUp
  /\ cache = <<>>

\* a cycle that started during the outage, after an earlier cycle had filled
\* the cache, reports both records as changed
C28_WitnessCycle ==
  /\ ~redisUp
  /\ cache # <<>>
  /\ cyc["manual"].pc = "DONE"
  /\ cyc["manual"].job = "manual"
  /\ ~cyc["manual"].stored
  /\ Len(cyc["manual"].changedTokens) = 2
  /\ TokensOf(cache["tokens:all"]) = cyc["manual"].allTokens

(***************************************************************************)
(* Normalizers: DexScreenerClient.normalizeTokens and                      *)
(* GeckoTerminalClient.normalizeTokens.  A raw value is what the response  *)
(* holds under a property: nothing, a string or a number.                  *)
(***************************************************************************)
RawUndefined == [kind |-> "undefined", chars |-> <<>>, n |-> 0]

RawString(chars) == [kind |-> "string", chars |-> chars, n |-> 0]

RawNumber(n) == [kind |-> "number", chars |-> <<>>, n |-> n]

\* the number that is not a number
NaN == -2147483647

\* a + b of two numbers either of which may be NaN
Plus(a, b) == IF a = NaN \/ b = NaN THEN NaN ELSE a + b

\* x || 0 for a number x
OrZero(x) == IF x = NaN \/ x = 0 THEN 0 ELSE x

Truthy(raw) ==
  CASE raw.kind = "undefined" -> FALSE
    [] raw.kind = "string" -> raw.chars # <<>>
    [] OTHER -> raw.n # 0

\* parseFloat(raw) for texts without a fraction part
parseFloat(raw) ==
  CASE raw.kind = "undefined" -> NaN
    [] raw.kind = "number" -> raw.n
    [] OTHER -> LET t == DropSpaces(raw.chars)
                    signed == t # <<>> /\ t[1] \in {"+", "-"}
                    digits == DigitPrefix(IF signed THEN Tail(t) ELSE t, 10)
                    magnitude == NumberOf(digits, 10, 0)
                IN  IF digits = <<>> THEN NaN
                    ELSE IF signed /\ t[1] = "-" THEN 0 - magnitude ELSE magnitude

\* parseInt(raw || 0)
parseIntOrZero(raw) ==
  IF ~Truthy(raw) THEN 0
  ELSE IF raw.kind = "number" THEN raw.n
  ELSE LET parsed == parseInt(raw.chars) IN IF parsed.nan THEN NaN ELSE parsed.value

\* a pair of the primary source: baseToken.address, baseToken.name,
\* baseToken.symbol, priceNative, volume.h24, txns.h24.buys, txns.h24.sells;
\* other stands for each of the remaining numeric properties
RawPair(address, name, symbol, priceNative, volumeH24, buysH24, sellsH24, other) ==
  [address |-> address, name |-> name, symbol |-> symbol, price |-> priceNative,
   volumeH24 |-> volumeH24, buysH24 |-> buysH24, sellsH24 |-> sellsH24, other |-> other]

\* dexscreener.ts lines 154-160
DexPairKept(pair) ==
  pair.address # <<>> /\ pair.name # "" /\ pair.symbol # "" /\ pair.price.kind # "undefined"

\* dexscreener.ts lines 161-186
DexPairToken(pair) ==
  LET volume24h == OrZero(parseFloat(pair.volumeH24))
      transactionCount24h == OrZero(Plus(parseIntOrZero(pair.buysH24), parseIntOrZero(pair.sellsH24)))
      otherFloat == OrZero(parseFloat(pair.other))
      otherCount == OrZero(Plus(parseIntOrZero(pair.other), parseIntOrZero(pair.other)))
  IN  Token(pair.address, pair.name, pair.symbol, OrZero(parseFloat(pair.price)), otherFloat,
            otherFloat, volume24h, otherFloat, otherFloat, otherCount, transactionCount24h, otherCount,
            otherFloat, otherFloat, otherFloat, "raydium", 1)

DexNormalizeTokens(pairs) ==
  LET kept == FilterSeq(pairs, {pair \in Range(pairs) : DexPairKept(pair)})
  IN  [i \in 1..Len(kept) |-> DexPairToken(kept[i])]

\* part_002 lines 224-228: an entry of the secondary source, with id,
\* attributes.name, attributes.symbol, attributes.price_usd,
\* attributes.volume_usd.h24, attributes.transactions.h24.buys and .sells
GeckoEntryKept(entry) == entry.address # <<>> /\ entry.name # "" /\ entry.symbol # ""

\* part_002 lines 229-252
GeckoEntryToken(entry) ==
  LET otherFloat == OrZero(parseFloat(entry.other))
  IN  [Token(entry.address, entry.name, entry.symbol, OrZero(parseFloat(entry.price)), otherFloat,
             0, OrZero(parseFloat(entry.volumeH24)), 0, otherFloat,
             0, Plus(parseIntOrZero(entry.buysH24), parseIntOrZero(entry.sellsH24)), 0,
             otherFloat, otherFloat, 0, "GeckoTerminal", 1)
         EXCEPT !.volume_sol = Undefined, !.transaction_count = Undefined]

GeckoNormalizeTokens(entries) ==
  LET kept == FilterSeq(entries, {entry \in Range(entries) : GeckoEntryKept(entry)})
  IN  [i \in 1..Len(kept) |-> GeckoEntryToken(kept[i])]

(***************************************************************************)
(* SpecNormalize: both normalizers applied to batches of raw entries       *)
(***************************************************************************)
RawValues == {RawUndefined, RawString(<<"n", "/", "a">>), RawString(<<"7">>), RawNumber(5)}

RawEntries ==
  {RawPair(address, name, symbol, price, volumeH24, buysH24, RawNumber(2), other) :
     address \in {AddrOf(1), <<>>}, name \in {"Alpha", ""}, symbol \in {"ALP", ""},
     price \in RawValues, volumeH24 \in {RawUndefined, RawNumber(30)},
     buysH24 \in {RawUndefined, RawString(<<"n", "/", "a">>), RawNumber(4)},
     other \in {RawUndefined, RawString(<<"n", "/", "a">>), RawNumber(9)}}

GoodEntry ==
  RawPair(AddrOf(2), "Beta", "BET", RawString(<<"3">>), RawNumber(40), RawNumber(1), RawNumber(1),
          RawNumber(8))

RawBatches == {<<e>> : e \in RawEntries} \cup {<<e, GoodEntry>> : e \in RawEntries}

InitNormalize ==
  /\ call \in {[fn |-> "normalizeTokens", source |-> source, raw |-> batch] :
                 source \in {"dexscreener", "geckoterminal"}, batch \in RawBatches}
  /\ ret = NotYet
  /\ SystemIdle

NormalizeStep ==
  /\ call.fn = "normalizeTokens"
  /\ ret = NotYet
  /\ ret' = [done |-> TRUE,
             out |-> IF call.source = "dexscreener" THEN DexNormalizeTokens(call.raw)
                     ELSE GeckoNormalizeTokens(call.raw)]
  /\ UNCHANGED <<call, cache, redisUp, cyc>>

NextNormalize == NormalizeStep

SpecNormalize == InitNormalize /\ [][NextNormalize]_vars

NormalizeDone == call.fn = "normalizeTokens" /\ ret # NotYet

NumericFields ==
  {"price_sol", "market_cap_sol", "volume_1h", "volume_24h", "volume_7d", "liquidity_sol",
   "transaction_count_1h", "transaction_count_24h", "transaction_count_7d",
   "price_1hr_change", "price_24hr_change", "price_7d_change"}

\* the raw value holds a number: a number, or a text that starts with one
Parseable(raw) == raw.kind = "number" \/ (raw.kind = "string" /\ DigitPrefix(raw.chars, 10) # <<>>)

\* the entry has an address, a name, a ticker and a usable price
Complete(entry) ==
  entry.address # <<>> /\ entry.name # "" /\ entry.symbol # "" /\ Parseable(entry.price)

\* C29: every record a normalizer emits has a non-empty address, name and
\* ticker, and every numeric field of it is a number, never NaN: a missing or
\* unparseable input becomes 0.  A raw entry without an address, a name, a
\* ticker or a usable price is dropped and the rest of the batch is kept.
C29_NormalizedRecordsClean ==
  NormalizeDone =>
    /\ \A i \in 1..Len(ret.out) :
         /\ ret.out[i].token_address # <<>>
         /\ ret.out[i].token_name # ""
         /\ ret.out[i].token_ticker # ""
         /\ \A f \in NumericFields : ret.out[i][f] # NaN
    /\ Len(ret.out) = Cardinality({i \in 1..Len(call.raw) : Complete(call.raw[i])})
    /\ \A i \in 1..Len(call.raw) :
         (Complete(call.raw[i]) /\ ~Parseable(call.raw[i].volumeH24)) =>
           \E j \in 1..Len(ret.out) :
             /\ ret.out[j].token_address = call.raw[i].address
             /\ ret.out[j].volume_24h = 0

(***************************************************************************)
(* Rate limiting: enforceRateLimit of both clients, the query loop of      *)
(* DexScreenerClient.searchTokens and the batch loop of                    *)
(* GeckoTerminalClient.getMultipleTokens, run by one sequential caller.    *)
(* Times are in milliseconds.                                              *)
(***************************************************************************)
DexRateLimit == 300

GeckoRateLimit == 30

requestInterval(fn) ==
  IF fn = "DexScreenerClient.searchTokens" THEN 60000 \div DexRateLimit ELSE 60000 \div GeckoRateLimit

maxRetries == 3

backoffMultiplier == 2

RECURSIVE Pow(_, _)
Pow(base, exponent) == IF exponent = 0 THEN 1 ELSE base * Pow(base, exponent - 1)

\* dexscreener.ts lines 126-137: the pause of withRetry before the next attempt
RetryPause(outcome, attempt) ==
  IF outcome = "rateLimited" THEN Pow(backoffMultiplier, attempt) * 1000 ELSE 1000 * (attempt + 1)

\* the searches of one searchTokens run, and the batches of one enrichment
MaxSearches == 2

MaxBatches == 3

\* how long an HTTP call takes, and how late a timer may fire
CallDurations == {0, 50}

TimerLateness == {0, 10}

\* Date.now() when the caller enters
StartTime == 100000

InitRate ==
  /\ call \in {[fn |-> fn, pc |-> "enforceRateLimit", now |-> StartTime, lastRequestTime |-> last,
                index |-> 1, total |-> total, attempt |-> 0,
                waited |-> FALSE, starts |-> <<>>,
                lastWaited |-> FALSE, lastFailed |-> FALSE, prevFailed |-> FALSE] :
                 fn \in {"DexScreenerClient.searchTokens", "GeckoTerminalClient.getMultipleTokens"},
                 last \in {0, StartTime - 100, StartTime},
                 total \in 1..MaxBatches}
  /\ call.fn = "DexScreenerClient.searchTokens" => call.total = MaxSearches
  /\ ret = NotYet
  /\ SystemIdle

\* the result is handed back when the loop is over
RateReturn(pc) == IF pc = "done" THEN [done |-> TRUE, out |-> <<>>] ELSE ret

\* enforceRateLimit of either client
enforceRateLimit ==
  /\ call.pc = "enforceRateLimit"
  /\ \E late \in TimerLateness :
       LET timeSinceLastRequest == call.now - call.lastRequestTime
           waitTime == requestInterval(call.fn) - timeSinceLastRequest
           after == IF timeSinceLastRequest < requestInterval(call.fn)
                    THEN call.now + waitTime + late ELSE call.now
           pc == IF call.index > call.total THEN "done" ELSE "get"
       IN  /\ call' = [call EXCEPT !.now = after, !.lastRequestTime = after, !.waited = TRUE,
                                   !.pc = pc]
           /\ ret' = RateReturn(pc)
  /\ UNCHANGED <<cache, redisUp, cyc>>

\* the call starts now: the two latest starts are kept
Started(state) ==
  [state EXCEPT !.starts = IF state.starts = <<>> THEN <<state.now>>
                            ELSE <<state.starts[Len(state.starts)], state.now>>,
                !.lastWaited = state.waited, !.waited = FALSE,
                !.prevFailed = state.lastFailed]

\* one client.get of the batch loop of getMultipleTokens
GeckoGet ==
  /\ call.fn = "GeckoTerminalClient.getMultipleTokens"
  /\ call.pc = "get"
  /\ \E duration \in CallDurations, ok \in BOOLEAN :
       LET pc == IF ok /\ call.total > 1 THEN "enforceRateLimit"
                 ELSE IF call.index + 1 > call.total THEN "done" ELSE "get"
       IN  /\ call' = [Started(call) EXCEPT !.now = call.now + duration, !.index = call.index + 1,
                                            !.lastFailed = ~ok, !.pc = pc]
           /\ ret' = RateReturn(pc)
  /\ UNCHANGED <<cache, redisUp, cyc>>

\* one client.get of searchTokens, inside withRetry
DexGet ==
  /\ call.fn = "DexScreenerClient.searchTokens"
  /\ call.pc = "get"
  /\ \E duration \in CallDurations, outcome \in {"ok", "rateLimited", "error"} :
       LET over == outcome = "ok" \/ call.attempt = maxRetries
           pc == IF over /\ call.index + 1 > call.total THEN "done" ELSE "enforceRateLimit"
       IN  /\ call' = [Started(call) EXCEPT
                         !.now = IF over THEN call.now + duration
                                 ELSE call.now + duration + RetryPause(outcome, call.attempt),
                         !.index = IF over THEN call.index + 1 ELSE call.index,
                         !.attempt = IF over THEN 0 ELSE call.attempt + 1,
                         !.lastFailed = outcome # "ok", !.pc = pc]
           /\ ret' = RateReturn(pc)
  /\ UNCHANGED <<cache, redisUp, cyc>>

NextRate == enforceRateLimit \/ GeckoGet \/ DexGet

SpecRate == InitRate /\ [][NextRate]_vars

RateCaller ==
  call.fn \in {"DexScreenerClient.searchTokens", "GeckoTerminalClient.getMultipleTokens"}

\* C30: every HTTP call of a client is preceded by the rate-limit wait, so
\* two consecutive calls of one sequential caller start at least
\* 60000 / requestsPerMinute ms apart; this includes the successive batch
\* calls of one enrichment request, also after a batch call failed.
C30_CallsSpaced ==
  (RateCaller /\ call.starts # <<>>) =>
    /\ call.lastWaited
    /\ Len(call.starts) = 2 => call.starts[2] - call.starts[1] >= requestInterval(call.fn)

(***************************************************************************)
(* SpecRetry: withRetry of both clients around an operation that may fail  *)
(***************************************************************************)
RetryClients == {"DexScreenerClient.withRetry", "GeckoTerminalClient.withRetry"}

\* the factor of the pauses: 1000 on the primary client, 2000 on the secondary
baseDelay(fn) == IF fn = "DexScreenerClient.withRetry" THEN 1000 ELSE 2000

\* isRateLimitError: a response with status 429 or 503
AttemptOutcomes == {"ok", "status429", "status503", "networkError"}

isRateLimitError(error) == error \in {"status429", "status503"}

\* the pause of withRetry after the failed attempt number attempt
withRetryPause(fn, error, attempt) ==
  IF isRateLimitError(error) THEN Pow(backoffMultiplier, attempt) * baseDelay(fn)
  ELSE baseDelay(fn) * (attempt + 1)

\* if (attempt === maxRetries)
Exhausted_OneMore(attempt) == attempt = maxRetries + 1

Exhausted(attempt) == attempt = maxRetries

\* what withRetry does once the retries are exhausted
GivesUp(fn) ==
  IF fn = "DexScreenerClient.withRetry" THEN [pc |-> "thrown", out |-> "lastError"]
  ELSE [pc |-> "returned", out |-> "empty"]

InitRetry ==
  /\ call \in {[fn |-> fn, pc |-> "attempt", attempt |-> 0, now |-> StartTime, attempts |-> 0,
                failedAt |-> StartTime, lastError |-> "none", paused |-> 0] : fn \in RetryClients}
  /\ ret = NotYet
  /\ SystemIdle

\* one pass of the loop body up to the pause: await operation() and the catch block
withRetryAttempt ==
  /\ call.fn \in RetryClients
  /\ call.pc = "attempt"
  /\ \E duration \in CallDurations, outcome \in AttemptOutcomes :
       LET after == call.now + duration
           tried == [call EXCEPT !.now = after, !.attempts = call.attempts + 1]
       IN  IF outcome = "ok"
           THEN /\ call' = [tried EXCEPT !.pc = "returned"]
                /\ ret' = [done |-> TRUE, out |-> "result"]
           ELSE IF Exhausted(call.attempt)
           THEN /\ call' = [tried EXCEPT !.pc = GivesUp(call.fn).pc, !.lastError = outcome,
                                         !.failedAt = after]
                /\ ret' = [done |-> TRUE, out |-> GivesUp(call.fn).out]
           ELSE /\ call' = [tried EXCEPT !.pc = "pause", !.lastError = outcome, !.failedAt = after]
                /\ ret' = ret
  /\ UNCHANGED <<cache, redisUp, cyc>>

\* the setTimeout of the catch block, then the next iteration
withRetrySleep ==
  /\ call.fn \in RetryClients
  /\ call.pc = "pause"
  /\ \E late \in TimerLateness :
       call' = [call EXCEPT !.now = call.now + withRetryPause(call.fn, call.lastError, call.attempt) + late,
                            !.attempt = call.attempt + 1, !.paused = call.paused + 1,
                            !.pc = "attempt"]
  /\ UNCHANGED <<ret, cache, redisUp, cyc>>

NextRetry == withRetryAttempt \/ withRetrySleep

SpecRetry == InitRetry /\ [][NextRetry]_vars

SpecRetryFair == SpecRetry /\ WF_vars(NextRetry)

RetryCaller == call.fn \in RetryClients

\* the next attempt is about to start after a failed one
Resumed == RetryCaller /\ call.pc = "attempt" /\ call.attempt > 0

\* C31: after an attempt failed with a rate-limit response (429/503) or with a
\* transient error and attempts remain, the next attempt starts no earlier
\* than baseDelay * multiplier^attempt after the failure, attempt counting the
\* failed attempts from 0.
C31_BackoffAtLeastExponential ==
  Resumed =>
    call.now - call.failedAt >= baseDelay(call.fn) * Pow(backoffMultiplier, call.attempt - 1)

RetryOver == RetryCaller /\ call.pc \in {"returned", "thrown"}

RetryBounded ==
  RetryCaller =>
    /\ call.attempts <= maxRetries + 1
    /\ (RetryOver /\ call.lastError # "none" /\ ret.out # "result") =>
         /\ call.attempts = maxRetries + 1
         /\ call.fn = "DexScreenerClient.withRetry" => (call.pc = "thrown" /\ ret.out = "lastError")
         /\ call.fn = "GeckoTerminalClient.withRetry" => (call.pc = "returned" /\ ret.out = "empty")
    /\ ret # NotYet <=> RetryOver

\* C32: withRetry runs its operation at most maxRetries + 1 times and then
\* terminates: the primary client throws the last error to its caller, the
\* secondary client returns an empty result instead.
C32_BoundedAttemptsThenOver == []RetryBounded /\ <>RetryOver

C32_Witness ==
  /\ call.fn = "GeckoTerminalClient.withRetry"
  /\ call.pc = "returned"
  /\ call.attempts = maxRetries + 1
  /\ ret = [done |-> TRUE, out |-> "empty"]

(***************************************************************************)
(* WebSocketServer.broadcast.  clients is the subscriber set in insertion  *)
(* order (the order forEach visits it), open the connections whose         *)
(* readyState is OPEN, failing those whose send throws.                    *)
(***************************************************************************)
Sent(clients, received, threw) == [clients |-> clients, received |-> received, threw |-> threw]

\* part_000 lines 1042-1071: each send is guarded by try/catch
RECURSIVE broadcastFrom(_, _, _, _)
broadcastFrom(rest, open, failing, acc) ==
  IF rest = <<>> THEN acc
  ELSE LET client == Head(rest)
       IN  IF client \in open /\ client \notin failing
           THEN broadcastFrom(Tail(rest), open, failing,
                              Sent(Append(acc.clients, client), acc.received \cup {client}, FALSE))
           ELSE broadcastFrom(Tail(rest), open, failing, acc)

broadcast(clients, open, failing) == broadcastFrom(clients, open, failing, Sent(<<>>, {}, FALSE))

\* websocket-server.ts lines 60-68: a send that throws ends the forEach
RECURSIVE broadcastPlainFrom(_, _, _, _)
broadcastPlainFrom(rest, open, failing, received) ==
  IF rest = <<>> THEN [received |-> received, threw |-> FALSE]
  ELSE LET client == Head(rest)
       IN  IF client \notin open THEN broadcastPlainFrom(Tail(rest), open, failing, received)
           ELSE IF client \in failing THEN [received |-> received, threw |-> TRUE]
           ELSE broadcastPlainFrom(Tail(rest), open, failing, received \cup {client})

broadcastPlain(clients, open, failing) ==
  LET sent == broadcastPlainFrom(clients, open, failing, {})
  IN  Sent(clients, sent.received, sent.threw)

(***************************************************************************)
(* SpecBroadcast: one broadcast over every small subscriber set            *)
(***************************************************************************)
Connections == {"ws1", "ws2", "ws3"}

ClientLists ==
  {<<>>} \cup {<<a>> : a \in Connections}
    \cup {<<a, b>> : a \in Connections, b \in Connections}
    \cup {<<a, b, c>> : a \in Connections, b \in Connections, c \in Connections}

InitBroadcast ==
  /\ call \in {[fn |-> fn, clients |-> clients, open |-> open, failing |-> failing] :
                 fn \in {"broadcast", "broadcastPlain"},
                 clients \in {l \in ClientLists : Cardinality(Range(l)) = Len(l)},
                 open \in SUBSET Connections, failing \in SUBSET Connections}
  /\ call.open \subseteq Range(call.clients)
  /\ call.failing \subseteq call.open
  /\ ret = NotYet
  /\ SystemIdle

BroadcastStep ==
  /\ call.fn = "broadcast"
  /\ ret = NotYet
  /\ ret' = [done |-> TRUE, out |-> broadcast(call.clients, call.open, call.failing)]
  /\ UNCHANGED <<call, cache, redisUp, cyc>>

BroadcastPlainStep ==
  /\ call.fn = "broadcastPlain"
  /\ ret = NotYet
  /\ ret' = [done |-> TRUE, out |-> broadcastPlain(call.clients, call.open, call.failing)]
  /\ UNCHANGED <<call, cache, redisUp, cyc>>

NextBroadcast == BroadcastStep \/ BroadcastPlainStep

SpecBroadcast == InitBroadcast /\ [][NextBroadcast]_vars

BroadcastDone == call.fn \in {"broadcast", "broadcastPlain"} /\ ret # NotYet

\* C33: during a broadcast a send failure on one connection removes exactly
\* that connection from the subscriber set; every other open connection
\* still receives the message and stays in the set.
C33_SendFailureIsolated ==
  (BroadcastDone /\ call.failing # {}) =>
    /\ \A client \in call.failing : client \notin Range(ret.out.clients)
    /\ \A client \in call.open \ call.failing :
         client \in ret.out.received /\ client \in Range(ret.out.clients)

(***************************************************************************)
(* SpecHeartbeat: WebSocketServer.startHeartbeat with the connection,      *)
(* pong and close handlers of setupEventHandlers.  Of each connection the  *)
(* model keeps its place (absent, open, closed by the peer, terminated by  *)
(* the heartbeat), its isAlive flag, its membership of this.clients and    *)
(* the number of probes sent to it since its last pong.                    *)
(***************************************************************************)
MaxTicks == 3

NoConnection == [at |-> "absent", isAlive |-> FALSE, inClients |-> FALSE, unanswered |-> 0]

InitHeartbeat ==
  /\ call = [fn |-> "heartbeat", ticks |-> 0, conns |-> [ws \in Connections |-> NoConnection]]
  /\ ret = NotYet
  /\ SystemIdle

\* wss.on('connection')
Connect(ws) ==
  /\ call.fn = "heartbeat"
  /\ call.conns[ws].at = "absent"
  /\ call' = [call EXCEPT !.conns[ws] =
                [at |-> "open", isAlive |-> TRUE, inClients |-> TRUE, unanswered |-> 0]]
  /\ UNCHANGED <<ret, cache, redisUp, cyc>>

\* ws.on('pong'): the peer answers the probes it has been sent
Pong(ws) ==
  /\ call.fn = "heartbeat"
  /\ call.conns[ws].at = "open"
  /\ call.conns[ws].unanswered > 0
  /\ call' = [call EXCEPT !.conns[ws].isAlive = TRUE, !.conns[ws].unanswered = 0]
  /\ UNCHANGED <<ret, cache, redisUp, cyc>>

\* ws.on('close'): the peer goes away
Close(ws) ==
  /\ call.fn = "heartbeat"
  /\ call.conns[ws].at = "open"
  /\ call' = [call EXCEPT !.conns[ws].at = "closed", !.conns[ws].inClients = FALSE]
  /\ UNCHANGED <<ret, cache, redisUp, cyc>>

\* what one heartbeat does to one connection
Probed(conn) ==
  IF conn.at # "open" THEN conn
  ELSE IF conn.isAlive = FALSE
  THEN [conn EXCEPT !.at = "terminated", !.inClients = FALSE]
  ELSE [conn EXCEPT !.isAlive = FALSE, !.unanswered = conn.unanswered + 1]

\* the callback of setInterval
HeartbeatTick ==
  /\ call.fn = "heartbeat"
  /\ call.ticks < MaxTicks
  /\ call' = [call EXCEPT !.ticks = call.ticks + 1,
                          !.conns = [ws \in Connections |-> Probed(call.conns[ws])]]
  /\ UNCHANGED <<ret, cache, redisUp, cyc>>

NextHeartbeat ==
  \/ \E ws \in Connections : Connect(ws) \/ Pong(ws) \/ Close(ws)
  \/ HeartbeatTick

SpecHeartbeat == InitHeartbeat /\ [][NextHeartbeat]_vars

Heartbeating == call.fn = "heartbeat"

\* the heartbeat drops ws in this step
Drops(ws) == call.conns[ws].at = "open" /\ call'.conns[ws].at = "terminated"

HeartbeatDropsAfterTwo ==
  Heartbeating =>
    \A ws \in Connections :
      /\ Drops(ws) => (call.conns[ws].unanswered >= 2 /\ ~call'.conns[ws].inClients)
      /\ (HeartbeatTick /\ call.conns[ws].at = "open" /\ call.conns[ws].unanswered = 0) => ~Drops(ws)
      /\ (HeartbeatTick /\ call.conns[ws].at = "open" /\ call.conns[ws].unanswered >= 2) => Drops(ws)

\* C34: the heartbeat drops a connection exactly when it has failed to
\* respond to two consecutive probes: one missed probe alone does not drop
\* it, a connection that answers every probe before the next one is sent is
\* never dropped, and a dropped connection leaves the subscriber set.
C34_DroppedAfterTwoMissedProbes == [][HeartbeatDropsAfterTwo]_vars

(***************************************************************************)
(* Order of the steps of one refresh cycle                                 *)
(***************************************************************************)
Persisting == {"PERSISTING", "PERSISTING_INDIVIDUAL", "PERSISTING_COMBINATIONS"}

\* caller c reads the prior full set in this step
ReadsSnapshot(c) == cyc[c].pc = "idle" /\ cyc'[c].pc = "FETCHING"

\* the change detection of caller c returns in this step
Detects(c) == cyc[c].pc = "FETCHING" /\ cyc'[c].pc # "FETCHING"

CycleInOrder ==
  \A c \in Callers :
    /\ ReadsSnapshot(c) =>
         /\ cyc'[c].oldTokens = CacheGetTokens(cache, redisUp, NoFilters)
         /\ cache' = cache
    /\ Detects(c) =>
         /\ cyc'[c].changedTokens = refreshTokens(cyc[c].oldTokens, cyc'[c].allTokens).changedTokens
         /\ cache' = cache
    /\ (cyc'[c] # cyc[c] /\ cache' # cache) => cyc[c].pc \in Persisting

\* C35: within one refresh cycle the prior full set is read from the cache
\* before any cache write of the cycle, change detection compares the new
\* set with that read and never with what the cycle itself (or anyone since)
\* has written, and the write-through happens only after change detection
\* has returned.
C35_ReadThenDetectThenWrite == [][CycleInOrder]_vars

\* a cycle that found a prior set, detected that part of the new set changed
\* and has started to write
C35_Witness ==
  \E c \in Callers :
    /\ cyc[c].pc = "PERSISTING_INDIVIDUAL"
    /\ cyc[c].changedTokens # <<>>
    /\ Len(cyc[c].changedTokens) < Len(cyc[c].allTokens)

(***************************************************************************)
(* What becomes of the changed subset of a cycle that has written          *)
(***************************************************************************)
\* the cycle of caller c has written a full set and detected changes, and
\* its result is taken by the handler in this step
ResultTaken(c) ==
  /\ cyc[c].pc = "DONE"
  /\ cyc[c].allTokens # <<>>
  /\ cyc[c].changedTokens # <<>>
  /\ cyc'[c].pc # "DONE"

\* C36: every refresh cycle that writes a new full set to the cache hands its
\* non-empty changed subset to a publisher, on every path: a scheduled
\* cycle, a manual refresh, and a list request that finds the cache empty
\* and refreshes; the baseline is never replaced while the detected changes
\* are discarded.
C36_ChangesReachPublisher ==
  [][\A c \in Callers :
       ResultTaken(c) =>
         /\ cyc'[c].pc = "PUBLISHED"
         /\ cyc'[c].message # NoMessage
         /\ cyc'[c].message.tokens = cyc[c].changedTokens]_vars

(***************************************************************************)
(* Overlapping cycles and what the cache holds after them                  *)
(***************************************************************************)
\* the all-records key, the key of every record of S and the key of every
\* common filter combination hold what a cycle with the full set S writes
HoldsOutputOf(S) ==
  /\ Stored("tokens:all", TokensJson(S))
  /\ \A i \in 1..Len(S) : Stored("token:" \o StrOf(S[i].token_address), TokenJson(S[i]))
  /\ \A k \in 1..Len(commonFilterCombinations) :
       LET f == commonFilterCombinations[k]
       IN  Stored(buildTokenKey(<<f>>), TokensJson(applyFilters(S, <<f>>)))

\* the scheduled and the manual cycle have both written and finished
BothFinished == \A c \in Callers : cyc[c].pc = "DONE" /\ cyc[c].allTokens # <<>> /\ cyc[c].stored

\* C37: when a scheduled and a manually triggered cycle overlap, then after
\* both have finished the cache holds the output of one of them, the one that
\* wrote last: the all-records key, every per-address key and every
\* pre-filtered key hold values of that one cycle, never a mix of the two.
C37_LastWriterWinsWhole ==
  BothFinished => \E c \in Callers : HoldsOutputOf(cyc[c].allTokens)

(***************************************************************************)
(* SpecConcurrentRate: enforceRateLimit of the primary client under        *)
(* concurrent callers.  The scheduler runs on the TokenService the Server  *)
(* constructs, the request handlers on the TokenService the controller     *)
(* constructs; each TokenService has its own DexScreenerClient and so its  *)
(* own lastRequestTime.                                                    *)
(***************************************************************************)
RateCallers == {"scheduler", "manual", "list", "lookup"}

\* server.ts line 122 and token-controller.ts line 11
ClientOf(caller) == IF caller = "scheduler" THEN "server" ELSE "controller"

\* the clock advances in steps of TickLength up to StartTime + Horizon
TickLength == 100

Horizon == 400

DexInterval == 60000 \div DexRateLimit

InitConcurrentRate ==
  /\ call = [fn |-> "concurrent", now |-> StartTime,
             lastRequestTime |-> [client \in {"server", "controller"} |-> 0],
             callers |-> [caller \in RateCallers |-> [pc |-> "idle", wakeAt |-> 0]],
             starts |-> <<>>]
  /\ ret = NotYet
  /\ SystemIdle

\* an HTTP call of the client starts now
StartedAt(starts, now) == IF starts = <<>> THEN <<now>> ELSE <<starts[Len(starts)], now>>

\* enforceRateLimit up to its await: the caller goes to sleep, or passes at once
EnterRateLimit(caller) ==
  /\ call.fn = "concurrent"
  /\ call.callers[caller].pc = "idle"
  /\ LET client == ClientOf(caller)
         timeSinceLastRequest == call.now - call.lastRequestTime[client]
     IN  IF timeSinceLastRequest < DexInterval
         THEN call' = [call EXCEPT !.callers[caller] =
                         [pc |-> "sleeping", wakeAt |-> call.now + (DexInterval - timeSinceLastRequest)]]
         ELSE call' = [call EXCEPT !.callers[caller].pc = "called",
                                   !.lastRequestTime[client] = call.now,
                                   !.starts = StartedAt(call.starts, call.now)]
  /\ UNCHANGED <<ret, cache, redisUp, cyc>>

\* the timer fires: lastRequestTime = Date.now(), and the call goes out
WakeRateLimit(caller) ==
  /\ call.fn = "concurrent"
  /\ call.callers[caller].pc = "sleeping"
  /\ call.now >= call.callers[caller].wakeAt
  /\ call' = [call EXCEPT !.callers[caller].pc = "called",
                          !.lastRequestTime[ClientOf(caller)] = call.now,
                          !.starts = StartedAt(call.starts, call.now)]
  /\ UNCHANGED <<ret, cache, redisUp, cyc>>

ClockTick ==
  /\ call.fn = "concurrent"
  /\ call.now + TickLength <= StartTime + Horizon
  /\ call' = [call EXCEPT !.now = call.now + TickLength]
  /\ UNCHANGED <<ret, cache, redisUp, cyc>>

NextConcurrentRate ==
  \/ \E caller \in RateCallers : EnterRateLimit(caller) \/ WakeRateLimit(caller)
  \/ ClockTick

SpecConcurrentRate == InitConcurrentRate /\ [][NextConcurrentRate]_vars

\* C38: any two calls to the same upstream source made anywhere in the
\* process start at least one rate-limit interval apart, also when concurrent
\* callers issue them: all callers share one last-call timestamp per source
\* and no two of them pass the rate-limit wait for the same slot.
C38_ProcessWideSpacing ==
  (call.fn = "concurrent" /\ Len(call.starts) = 2) =>
    call.starts[2] - call.starts[1] >= DexInterval

(***************************************************************************)
(* What follows a failed batch call of getMultipleTokens                   *)
(***************************************************************************)
\* the batch call made in this step is answered with a 429/503 or fails
BatchCallFails ==
  /\ call.fn = "GeckoTerminalClient.getMultipleTokens"
  /\ call.pc = "get"
  /\ call'.starts # call.starts
  /\ call'.lastFailed

\* C39: when a batch call to the secondary source is answered with a
\* rate-limit response (429/503) or a transient error, that batch call is
\* retried with backoff until it succeeds or the maximum attempt count is
\* reached.
C39_FailedBatchRetried ==
  [][(BatchCallFails /\ call.attempt < maxRetries) =>
       /\ call'.index = call.index
       /\ call'.attempt = call.attempt + 1
       /\ call'.pc # "done"
       /\ call'.now - call.now >= baseDelay("GeckoTerminalClient.withRetry")]_vars

(***************************************************************************)
(* SpecDetectSets: detectChangedTokens applied to a new set and a prior    *)
(* snapshot, the new set itself among the priors                           *)
(***************************************************************************)
\* what earlier cycles can have stored: nothing, or a set of records
ProperPriors ==
  {JsonNull} \cup
  UNION {{TokensJson(s) : s \in {l \in [1..n -> PriorTokens] : DistinctAddresses(l)}} : n \in 0..MaxNewLen}

\* an empty new set meets every snapshot, a non-empty one the proper priors
\* and itself
PriorsFor(newTokens) ==
  IF newTokens = <<>> THEN OldSnapshots ELSE ProperPriors \cup {TokensJson(newTokens)}

InitDetectSets ==
  /\ call \in UNION {{[fn |-> "detectChangedTokens", newTokens |-> n, oldTokens |-> o] :
                        o \in PriorsFor(n)} : n \in NewLists}
  /\ ret = NotYet
  /\ SystemIdle

SpecDetectSets == InitDetectSets /\ [][NextDetect]_vars

\* the prior snapshot is absent or a list of records with distinct addresses
PriorIsProperSet(oldTokens) ==
  oldTokens.kind = "null" \/ (WellFormed(oldTokens) /\ DistinctAddresses(TokensOf(oldTokens)))

PriorRecords(oldTokens) == IF oldTokens.kind = "null" THEN {} ELSE Range(TokensOf(oldTokens))

\* C40: detectChanges returns a sub-sequence of the new set in its original
\* order that holds no record of the prior set and no duplicates; a set
\* compared with itself yields the empty result, and so does an empty new
\* set, whatever the prior.
C40_ChangedIsCleanSubsequence ==
  DetectDone =>
    /\ call.newTokens = <<>> => ret.out = Returned(<<>>)
    /\ PriorIsProperSet(call.oldTokens) =>
         /\ ~ret.out.threw
         /\ ret.out.value = FilterSeq(call.newTokens, Range(ret.out.value))
         /\ Range(ret.out.value) \cap PriorRecords(call.oldTokens) = {}
         /\ DistinctAddresses(ret.out.value)
         /\ call.oldTokens = TokensJson(call.newTokens) => ret.out.value = <<>>

\* a set of two records, one of them moved from its base values, compared
\* with itself
C40_Witness ==
  /\ DetectDone
  /\ Len(call.newTokens) = 2
  /\ call.newTokens[1] \notin PriorTokens
  /\ call.oldTokens = TokensJson(call.newTokens)
  /\ ret.out = Returned(<<>>)

\* a proper sub-sequence: the second of two records is reported alone
C40_WitnessPart ==
  /\ DetectDone
  /\ Len(call.newTokens) = 2
  /\ PriorIsProperSet(call.oldTokens)
  /\ Len(call.oldTokens.items) = 2
  /\ ret.out = Returned(<<call.newTokens[2]>>)

====
